---- MODULE Spec2Model ----
(***************************************************************************)
(* Relay/session core of the two-way Telegram bot (worker-D1).  Every      *)
(* inbound update is handled by its own asynchronous invocation of         *)
(* handleUpdate; invocations interleave at their await points and share    *)
(* only the D1 tables.  A handler slot of the model is one invocation, its *)
(* pc the await it is suspended at.                                         *)
(***************************************************************************)
EXTENDS Integers, Sequences, FiniteSets, TLC

\* ------------------------------------------------------------------ bounds
MaxTopics == 3          \* forum topics the admin group hands out in one run
Threshold == 2          \* stored block_threshold of the deployments explored
MaxIds == 1             \* instants at which Date.now() is read for a rule identity

\* --------------------------------------------------------------- universe
Handlers == {"h1", "h2"}        \* concurrently running handleUpdate invocations
UserIds  == {"u1", "a1", "a2"}  \* private chats talking to the bot
AdminIds == {"a1", "a2"}        \* env.ADMIN_IDS
MsgIds   == {1}                 \* message_id values of inbound messages
Dates    == {100}               \* message.date values
NoTopic  == 0                   \* topic_id IS NULL
GroupMembers == {"a1", "m1"}    \* who can press buttons in the admin group

\* Text is a sequence of one-character strings.
T_start  == <<"/", "s", "t", "a", "r", "t">>
T_help   == <<"/", "h", "e", "l", "p">>
T_three  == <<"3">>
T_three_ws == <<" ", "3">>
T_bad    == <<"B", "a", "d">>
T_hi     == <<"h", "i">>
T_empty  == <<>>
T_hibad  == <<"h", "i", "b", "a", "d">>
T_cancel == <<"/", "c", "a", "n", "c", "e", "l">>
T_x      == <<"x">>
T_blank  == <<" ">>
T_rule   == <<"k", "=", "=", "=", "r">>
T_a      == <<"a">>
T_ab     == <<"a", ":", "b">>
T_open   == <<"(">>
\* stored values of the filter switches
V_true   == <<"t", "r", "u", "e">>
V_false  == <<"f", "a", "l", "s", "e">>

UpperCase == <<"A", "B", "C", "D", "E", "F", "G", "H", "I", "J", "K", "L", "M",
               "N", "O", "P", "Q", "R", "S", "T", "U", "V", "W", "X", "Y", "Z">>
LowerCase == <<"a", "b", "c", "d", "e", "f", "g", "h", "i", "j", "k", "l", "m",
               "n", "o", "p", "q", "r", "s", "t", "u", "v", "w", "x", "y", "z">>
Digits    == <<"0", "1", "2", "3", "4", "5", "6", "7", "8", "9">>
WhiteSpace == {" ", "\n", "\t"}

LowerChar(c) ==
    IF \E i \in 1..Len(UpperCase) : UpperCase[i] = c
    THEN LowerCase[CHOOSE i \in 1..Len(UpperCase) : UpperCase[i] = c]
    ELSE c

ToLower(s) == [i \in 1..Len(s) |-> LowerChar(s[i])]

\* String.prototype.trim
RECURSIVE TrimLeft(_)
TrimLeft(s) == IF s # <<>> /\ Head(s) \in WhiteSpace THEN TrimLeft(Tail(s)) ELSE s
RECURSIVE TrimRight(_)
TrimRight(s) ==
    IF s # <<>> /\ s[Len(s)] \in WhiteSpace THEN TrimRight(SubSeq(s, 1, Len(s) - 1)) ELSE s
Trim(s) == TrimRight(TrimLeft(s))

IsDigit(c) == \E i \in 1..Len(Digits) : Digits[i] = c
DigitVal(c) == (CHOOSE i \in 1..Len(Digits) : Digits[i] = c) - 1
DigitStr(n) == <<Digits[n + 1]>>

\* parseInt(s, 10): leading white space skipped, optional sign, then the
\* longest run of digits; NaN when there is none.
RECURSIVE DigitRun(_, _)
DigitRun(s, acc) ==
    IF s # <<>> /\ IsDigit(Head(s)) THEN DigitRun(Tail(s), acc * 10 + DigitVal(Head(s))) ELSE acc
ParseInt(str) ==
    LET s    == TrimLeft(str)
        neg  == s # <<>> /\ Head(s) = "-"
        body == IF s # <<>> /\ Head(s) \in {"-", "+"} THEN Tail(s) ELSE s
    IN  IF body = <<>> \/ ~IsDigit(Head(body))
        THEN [nan |-> TRUE, n |-> 0]
        ELSE [nan |-> FALSE, n |-> IF neg THEN 0 - DigitRun(body, 0) ELSE DigitRun(body, 0)]

\* new RegExp(pattern, 'gi').test(text) on a fresh regex object, for the
\* patterns of this model, which are literal strings without metacharacters.
RegexTest(pattern, text) ==
    LET p == ToLower(pattern)
        t == ToLower(text)
    IN  \E i \in 1..(Len(t) + 1) :
            /\ i + Len(p) - 1 <= Len(t)
            /\ \A j \in 1..Len(p) : t[i + j - 1] = p[j]

\* Does new RegExp(pattern, 'gi') return?  Besides the literal strings the
\* model has patterns with a "(" that is never closed, for which the
\* constructor throws a SyntaxError.
RegexCompiles(pattern) == \A i \in 1..Len(pattern) : pattern[i] # "("

IsAdminUser(userId) == userId \in AdminIds

\* index of the first occurrence of sep in s, 0 when there is none
IndexOf(s, sep) ==
    LET at == {i \in 1..(Len(s) - Len(sep) + 1) : SubSeq(s, i, i + Len(sep) - 1) = sep}
    IN  IF at = {} THEN 0 ELSE CHOOSE i \in at : \A j \in at : i <= j

\* String.prototype.split(sep) for a non-empty separator
RECURSIVE SplitOn(_, _)
SplitOn(s, sep) ==
    LET i == IndexOf(s, sep)
    IN  IF i = 0 THEN <<s>>
        ELSE <<SubSeq(s, 1, i - 1)>> \o SplitOn(SubSeq(s, i + Len(sep), Len(s)), sep)

StartsWith(s, pre) == Len(s) >= Len(pre) /\ SubSeq(s, 1, Len(pre)) = pre

\* RegExp.prototype.source of new RegExp(pattern): the pattern with every
\* unescaped "/" written as "\/", so that /source/ reads as the same regex
RECURSIVE RegexSource(_)
RegexSource(p) ==
    IF p = <<>> THEN <<>>
    ELSE IF Head(p) = "\\" /\ Len(p) >= 2 THEN <<p[1], p[2]>> \o RegexSource(SubSeq(p, 3, Len(p)))
    ELSE IF Head(p) = "/" THEN <<"\\", "/">> \o RegexSource(Tail(p))
    ELSE <<Head(p)>> \o RegexSource(Tail(p))

\* Does JSON.parse accept the text?  Of the texts the model stores as
\* characters none starts with "[" or "{", which leaves the scalars: a string
\* in double quotes, an integer, true, false, null, with white space around.
JsonParses(text) ==
    LET t == Trim(text)
    IN  \/ /\ Len(t) >= 2 /\ t[1] = "\"" /\ t[Len(t)] = "\""
           /\ \A i \in 2..(Len(t) - 1) : t[i] \notin {"\"", "\\", "\n", "\t"}
        \/ /\ t # <<>> /\ \A i \in 1..Len(t) : IsDigit(t[i])
           /\ (Len(t) = 1 \/ t[1] # "0")
        \/ t \in {<<"t", "r", "u", "e">>, <<"f", "a", "l", "s", "e">>, <<"n", "u", "l", "l">>}

\* parseOldKeywordResponses: one rule per line keywords===response with both
\* sides non-empty after trim; empty lines, // comments and other lines are
\* skipped.  The patterns explored are valid regular expressions.
OldRuleOfLine(line) ==
    LET t == Trim(line)
        parts == SplitOn(t, <<"=", "=", "=">>)
    IN  IF t = <<>> \/ StartsWith(t, <<"/", "/">>) THEN <<>>
        ELSE IF Len(parts) = 2 /\ Trim(parts[1]) # <<>> /\ Trim(parts[2]) # <<>>
        THEN <<[keywords |-> Trim(parts[1]), response |-> Trim(parts[2])]>>
        ELSE <<>>
RECURSIVE OldRulesOfLines(_)
OldRulesOfLines(lines) ==
    IF lines = <<>> THEN <<>>
    ELSE OldRuleOfLine(Head(lines)) \o OldRulesOfLines(Tail(lines))
ParseOldKeywordResponses(envValue) ==
    IF envValue = <<>> THEN <<>> ELSE OldRulesOfLines(SplitOn(envValue, <<"\n">>))

\* ------------------------------------------------------------------ state
VARIABLES
    users,      \* users table: user_id -> row (exists = FALSE: no row)
    messages,   \* messages table: <<user_id, message_id>> -> entry
    config,     \* config table: stored key -> value (absent keys are not stored)
    nextTopic,  \* next message_thread_id createForumTopic returns
    handlers,   \* running invocations of handleUpdate
    cards,      \* users whose profile card (with its buttons) was posted
    hits,       \* per user: messages that reached the keyword check and matched,
                \* since block_count was last 0 (history variable)
    binder,     \* per user: the invocation that last wrote topic_id (history variable)
    clock,      \* Date.now(), in the unit in which no two rule additions coincide
    picked      \* per admin: the keys dbAdminStatePut has stored for the admin since
                \* the last dbAdminStateDelete for the admin (history variable)

vars == <<users, messages, config, nextTopic, handlers, cards, hits, binder, clock, picked>>

NoRow == [exists |-> FALSE, user_state |-> "new", is_blocked |-> FALSE,
          block_count |-> 0, topic_id |-> NoTopic]
\* INSERT INTO users (user_id, user_state, is_blocked, block_count) VALUES (?, 'new', 0, 0)
DefaultRow == [NoRow EXCEPT !.exists = TRUE]

NoEntry == [exists |-> FALSE, text |-> <<>>, date |-> 0]
\* what an edited-message notification reports; none sent yet
NoNote == [orig |-> <<>>, time |-> 0, new |-> <<>>]
\* placeholders of the notification
OriginalUnavailable == <<"[original content unavailable / not text]">>
TimeUnavailable == 0            \* "[send time unavailable]"
NewUnavailable == <<"[not text / caption]">>
\* new Date(date * 1000): the instant the notification prints
DateOf(date) == date * 1000
EditDates == {300}              \* date field of edited_message updates

\* inbound private messages explored
Message(text, media, fwd, link) == [text |-> text, media |-> media, fwd |-> fwd, link |-> link]
Messages ==
    { Message(T_start, "none", "none", FALSE),
      Message(T_help, "none", "none", FALSE),
      Message(T_three, "none", "none", FALSE),
      Message(T_three_ws, "none", "none", FALSE),
      Message(T_bad, "none", "none", FALSE),
      Message(T_hi, "none", "none", FALSE),
      Message(T_hibad, "none", "none", FALSE),
      Message(T_empty, "photo", "none", FALSE) }

\* identity of a rule: Date.now() for an added rule (frac = 0), Date.now() +
\* Math.random() for the j-th rule of a conversion (frac = j, the fractions
\* of one conversion being different from each other and from 0)
RuleId(ms, frac) == [ms |-> ms, frac |-> frac]

\* The value column of keyword_responses holds a text.  The model keeps a
\* text that JSON.stringify made of a rule list as that list (JSON.parse
\* gives the list back), and every other text as its characters.
StoredRules(rules) == [json |-> TRUE, rules |-> rules, text |-> <<>>]
StoredText(text) == [json |-> FALSE, rules |-> <<>>, text |-> text]

\* stored configurations explored: an admin has set the threshold, one or two
\* block keywords, one auto-reply rule and possibly switched media off
BaseConfig(kws) ==
    [k \in {"block_keywords", "block_threshold", "keyword_responses"} |->
        CASE k = "block_keywords" -> kws
          [] k = "block_threshold" -> DigitStr(Threshold)
          [] k = "keyword_responses" ->
                StoredRules(<<[keywords |-> T_hi, response |-> <<"y", "o">>, id |-> RuleId(0, 0)]>>)]
InitConfigs ==
    { BaseConfig(<<<<"b", "a", "d">>>>),
      [k \in {"block_keywords", "block_threshold", "keyword_responses",
              "enable_image_forwarding"} |->
          IF k = "enable_image_forwarding" THEN V_false
          ELSE BaseConfig(<<<<"b", "a", "d">>, <<"a", "d">>>>)[k]] }

\* callback data "config:<action>:<key>:<value>", split at the colons
NoData == [action |-> "none", key |-> "none", value |-> <<>>]
\* the admin edit session JSON { action, key }; none read
NoState == [action |-> "none", key |-> ""]
AwaitingInput(key) == [action |-> "awaiting_input", key |-> key]
FilterKeys == {"enable_image_forwarding", "enable_link_forwarding", "enable_text_forwarding",
               "enable_channel_forwarding", "enable_forward_forwarding",
               "enable_audio_forwarding", "enable_sticker_forwarding"}
\* keys whose edit action shows a prompt
EditKeys == {"welcome_msg", "verif_q", "verif_a", "block_threshold"}

\* the callback_data of a configuration button: `config:${action}:${key}:${value}`,
\* the segments after the action left out where the button has none.  The fixed
\* words are kept whole, the value is spelled out.
CallbackData(b) ==
    <<"config", ":", b.action>>
        \o (IF b.key = "" THEN <<>> ELSE <<":", b.key>>)
        \o (IF b.value = <<>> THEN <<>> ELSE <<":">> \o b.value)
\* data.split(':'): actionType = parts[1], keyOrAction = parts[2], value =
\* parts[3]; a segment that is not there is undefined
DecodeData(data) ==
    LET parts == SplitOn(data, <<":">>)
    IN  [action |-> IF Len(parts) >= 2 /\ Len(parts[2]) = 1 THEN parts[2][1] ELSE "none",
         key |-> IF Len(parts) >= 3 /\ Len(parts[3]) = 1 THEN parts[3][1] ELSE "",
         value |-> IF Len(parts) >= 4 THEN parts[4] ELSE <<>>]
\* the cancel button under the prompt of a session key: "config:menu" for the
\* edit prompts, cancelBack for the add prompts
CancelButtonOf(key) ==
    [action |-> "menu",
     key |-> CASE key = "keyword_responses_add" -> "autoreply"
               [] key = "block_keywords_add" -> "keyword"
               [] OTHER -> "",
     value |-> <<>>]
\* the config key the input for a session key is stored under
TargetOf(key) ==
    CASE key = "keyword_responses_add" -> "keyword_responses"
      [] key = "block_keywords_add" -> "block_keywords"
      [] OTHER -> key
\* the keys dbAdminStatePut has stored for an admin: the last two are kept
Picks(old, key) == IF old = <<>> THEN <<key>> ELSE <<old[Len(old)], key>>

\* dbConfigPut: INSERT OR REPLACE INTO config (key, value)
DbConfigPut(tbl, key, value) ==
    [k \in DOMAIN tbl \cup {key} |-> IF k = key THEN value ELSE tbl[k]]
\* DELETE FROM config WHERE key = ?
DbConfigDelete(tbl, key) == [k \in DOMAIN tbl \ {key} |-> tbl[k]]
\* the admin edit session is the config row admin_state:<userId>
AdminStateKey(userId) == "admin_state:" \o userId

\* getConfig: stored value, else environment variable, else the default.
\* The deployments explored set none of the optional environment variables.
GetConfig(key, defaultValue) ==
    IF key \in DOMAIN config THEN config[key] ELSE defaultValue

\* dbUserUpdate with the WHERE clause lost: every row is updated
DbUserUpdateNoWhere(tbl, userId, data) ==
    [u \in UserIds |->
        IF tbl[u].exists
        THEN [f \in DOMAIN tbl[u] |-> IF f \in DOMAIN data THEN data[f] ELSE tbl[u][f]]
        ELSE tbl[u]]

\* dbUserUpdate: UPDATE users SET ... WHERE user_id = ?  (no row: no effect)
DbUserUpdate(tbl, userId, data) ==
    [u \in UserIds |->
        IF u = userId /\ tbl[u].exists
        THEN [f \in DOMAIN tbl[u] |-> IF f \in DOMAIN data THEN data[f] ELSE tbl[u][f]]
        ELSE tbl[u]]

\* dbTopicUserGet: SELECT user_id FROM users WHERE topic_id = ?
TopicUsers(topicId) == {u \in UserIds : users[u].exists /\ users[u].topic_id = topicId}

IdleHandler ==
    [pc |-> "idle", kind |-> "none", user |-> "u1", msg |-> Message(T_empty, "none", "none", FALSE),
     msgId |-> 0, date |-> 0, snap |-> NoRow, i |-> 0, cnt |-> 0, thr |-> 0,
     topicId |-> NoTopic, oldTopic |-> NoTopic, newTopic |-> NoTopic, phase |-> 0,
     fresh |-> FALSE, wasBlocked |-> FALSE, reason |-> "", from |-> "none",
     stored |-> NoEntry, note |-> NoNote, data |-> NoData, out |-> <<>>,
     state |-> NoState, kws |-> <<>>, rules |-> <<>>, report |-> "", ret |-> "",
     picked |-> <<>>, target |-> NoData, jsonString |-> StoredRules(<<>>)]

Init ==
    /\ users = [u \in UserIds |-> NoRow]
    /\ messages = [k \in UserIds \X MsgIds |-> NoEntry]
    /\ config \in InitConfigs
    /\ nextTopic = 1
    /\ handlers = [h \in Handlers |-> IdleHandler]
    /\ cards = {}
    /\ hits = [u \in UserIds |-> 0]
    /\ binder = [u \in UserIds |-> "none"]
    /\ clock = 1
    /\ picked = [u \in UserIds |-> <<>>]

\* ---------------------------------------------------------------- helpers
\* A returned invocation leaves before anything else happens: it has no
\* further effect, so nothing is lost by retiring it at once.
Finished == \E h \in Handlers : handlers[h].pc = "done"
At(h, pc) == ~Finished /\ handlers[h].pc = pc
Idle(h) == At(h, "idle")
Call(c, ok, t) == [c |-> c, ok |-> ok, t |-> t]
Logged(r, c, ok, t) == [r EXCEPT !.out = Append(@, Call(c, ok, t))]
Goto(r, pc) == [r EXCEPT !.pc = pc]
\* An exception no handler catches rejects the promise of handleUpdate.
\* fetch hands that promise to ctx.waitUntil without awaiting it, so the
\* try / catch of fetch has been left when the rejection happens: the
\* exception ends the invocation uncaught ("throw" in the log).
Thrown(r) == [r EXCEPT !.pc = "done", !.out = Append(@, Call("throw", FALSE, NoTopic))]

\* getAutoReplyRules on the stored value v at time now: the rules returned
\* and whether they are written back (legacy text that was converted)
ReadAutoReplyRules(v, now) ==
    IF v.json THEN [rules |-> v.rules, write |-> FALSE]
    ELSE IF JsonParses(v.text) THEN [rules |-> <<>>, write |-> FALSE]
    ELSE LET old == ParseOldKeywordResponses(v.text)
         IN  [rules |-> [j \in 1..Len(old) |->
                            [keywords |-> RegexSource(old[j].keywords),
                             response |-> old[j].response, id |-> RuleId(now, j)]],
              write |-> Len(old) > 0]

\* getBlockKeywords / getAutoReplyRules: the stored list, '[]' by default.
\* The message pipeline is explored with stored rule lists only, which
\* getAutoReplyRules parses and returns.
GetBlockKeywords == GetConfig("block_keywords", <<>>)
GetAutoReplyRules == GetConfig("keyword_responses", StoredRules(<<>>)).rules

\* parseInt(await getConfig('block_threshold', env, "5"), 10) || 5
BlockThreshold ==
    LET p == ParseInt(GetConfig("block_threshold", <<"5">>))
    IN  IF p.nan \/ p.n = 0 THEN 5 ELSE p.n

\* the loop that ends at the first pattern that does not compile
FirstMatchStopsAtInvalid(patterns, text, from) ==
    LET bad == {j \in from..Len(patterns) : ~RegexCompiles(patterns[j])}
        hit == {j \in from..Len(patterns) :
                    /\ RegexTest(patterns[j], text)
                    /\ \A k \in bad : j < k}
    IN  IF hit = {} THEN 0 ELSE CHOOSE j \in hit : \A k \in hit : j <= k

\* index of the first pattern at or after position from whose regex matches
\* the text, 0 when there is none; a pattern for which new RegExp throws is
\* passed over by the catch inside the loop
FirstMatch(patterns, text, from) ==
    LET hit == {j \in from..Len(patterns) :
                    RegexCompiles(patterns[j]) /\ RegexTest(patterns[j], text)}
    IN  IF hit = {} THEN 0 ELSE CHOOSE j \in hit : \A k \in hit : j <= k

\* the filter switches: (await getConfig(key, env, 'true')).toLowerCase() === 'true'
FilterOn(key) == ToLower(GetConfig(key, V_true)) = V_true

\* the filter with every type checked on its own, without the else-if chain
FilterReasonAllTypes(m) ==
    CASE m.fwd # "none" /\ ~FilterOn("enable_forward_forwarding") -> "forward"
      [] m.fwd = "channel" /\ ~FilterOn("enable_channel_forwarding") -> "channel_forward"
      [] m.media \in {"audio", "voice"} /\ ~FilterOn("enable_audio_forwarding") -> "audio_voice"
      [] m.media \in {"sticker", "animation"} /\ ~FilterOn("enable_sticker_forwarding") -> "sticker_gif"
      [] m.media \in {"photo", "video", "document"} /\ ~FilterOn("enable_image_forwarding") -> "media"
      [] m.link /\ ~FilterOn("enable_link_forwarding") -> "link"
      [] m.text # <<>> /\ ~FilterOn("enable_text_forwarding") -> "text"
      [] OTHER -> ""

\* the filter with the link check ahead of the type checks
FilterReasonLinkFirst(m) ==
    IF m.link /\ ~FilterOn("enable_link_forwarding") THEN "link"
    ELSE IF m.fwd # "none"
    THEN IF ~FilterOn("enable_forward_forwarding") THEN "forward"
         ELSE IF m.fwd = "channel" /\ ~FilterOn("enable_channel_forwarding")
              THEN "channel_forward" ELSE ""
    ELSE IF m.media \in {"audio", "voice"}
    THEN IF ~FilterOn("enable_audio_forwarding") THEN "audio_voice" ELSE ""
    ELSE IF m.media \in {"sticker", "animation"}
    THEN IF ~FilterOn("enable_sticker_forwarding") THEN "sticker_gif" ELSE ""
    ELSE IF m.media \in {"photo", "video", "document"}
    THEN IF ~FilterOn("enable_image_forwarding") THEN "media" ELSE ""
    ELSE IF m.text # <<>> /\ ~FilterOn("enable_text_forwarding") THEN "text" ELSE ""

\* content-type filter of handlePrivateMessage: "" when the message may be
\* forwarded, else the reason it is dropped for
FilterReason(m) ==
    LET isFwd == m.fwd # "none"
        byType ==
            IF isFwd
            THEN IF ~FilterOn("enable_forward_forwarding") THEN "forward"
                 ELSE IF m.fwd = "channel" /\ ~FilterOn("enable_channel_forwarding")
                      THEN "channel_forward" ELSE ""
            ELSE IF m.media \in {"audio", "voice"}
            THEN IF ~FilterOn("enable_audio_forwarding") THEN "audio_voice" ELSE ""
            ELSE IF m.media \in {"sticker", "animation"}
            THEN IF ~FilterOn("enable_sticker_forwarding") THEN "sticker_gif" ELSE ""
            ELSE IF m.media \in {"photo", "video", "document"}
            THEN IF ~FilterOn("enable_image_forwarding") THEN "media" ELSE ""
            ELSE ""
        byLink ==
            IF byType = "" /\ m.link /\ ~FilterOn("enable_link_forwarding") THEN "link" ELSE byType
        isPureText == m.text # <<>> /\ m.media = "none" /\ ~isFwd
    IN  IF byLink = "" /\ isPureText /\ ~FilterOn("enable_text_forwarding") THEN "text" ELSE byLink

\* handleRelayToTopic up to its first await: topicId = user.topic_id
RelayStage(r) ==
    IF r.snap.topic_id = NoTopic
    THEN [r EXCEPT !.pc = "ct_create", !.phase = 1]
    ELSE [r EXCEPT !.pc = "rl_copy1", !.topicId = r.snap.topic_id]

\* the auto-reply loop from rule index from on, up to its next await
AutoReplyStage(r, from) ==
    LET rules == GetAutoReplyRules
        pats  == [j \in 1..Len(rules) |-> rules[j].keywords]
        j     == FirstMatch(pats, r.msg.text, from)
    IN  IF Len(rules) > 0 /\ r.msg.text # <<>> /\ j # 0
        THEN [r EXCEPT !.pc = "ar_send", !.i = j]
        ELSE RelayStage(r)

FilterStage(r) ==
    IF FilterReason(r.msg) # ""
    THEN [r EXCEPT !.pc = "flt_notify", !.reason = FilterReason(r.msg)]
    ELSE AutoReplyStage(r, 1)

\* the keyword-block loop from pattern index from on, up to its next await
KeywordLoop(r, from) ==
    LET j == FirstMatch(GetBlockKeywords, r.msg.text, from)
    IN  IF Len(GetBlockKeywords) > 0 /\ r.msg.text # <<>> /\ j # 0
        THEN [r EXCEPT !.pc = "kw_update", !.i = j, !.cnt = @ + 1]
        ELSE FilterStage(r)

KeywordStage(r) ==
    KeywordLoop([r EXCEPT !.cnt = r.snap.block_count, !.thr = BlockThreshold], 1)

\* handleVerification up to its first sendMessage
VerificationStage(r) ==
    IF r.msg.text = GetConfig("verif_a", T_three)
    THEN Goto(r, "hv_send_ok") ELSE Goto(r, "hv_send_fail")

\* handlePrivateMessage, step 2: dispatch on user.user_state
StateDispatch(r) ==
    CASE r.snap.user_state = "pending_verification" -> VerificationStage(r)
      [] r.snap.user_state = "verified" -> KeywordStage(r)
      [] OTHER -> Goto(r, "pm_need_start")

\* handlePrivateMessage from the row returned by dbUserGetOrCreate on
AfterGetUser(r, row) ==
    LET s == [r EXCEPT !.snap = row]
    IN  IF row.is_blocked THEN Goto(s, "done")
        ELSE IF IsAdminUser(r.user) THEN Goto(s, "pm_adminstate")
        ELSE StateDispatch(s)

\* an admin without an edit session: verified without the question
AfterNoAdminState(r) ==
    IF r.snap.user_state # "verified"
    THEN [r EXCEPT !.pc = "pm_forceverify", !.snap.user_state = "verified"]
    ELSE StateDispatch(r)

\* the sub-menu shown after an input for the session key
MenuAfter(r, key) ==
    IF key \in {"block_keywords_add", "block_keywords", "block_threshold"} THEN Goto(r, "mn_keyword")
    ELSE IF key \in {"keyword_responses_add", "keyword_responses"}
    THEN [r EXCEPT !.pc = "gr_read", !.ret = "menu"]
    ELSE IF key \in {"welcome_msg", "verif_q", "verif_a"} THEN Goto(r, "mn_base")
    ELSE Goto(r, "acs_delete")

\* handleAdminConfigInput up to its first await
AdminInputStage(r, adminState) ==
    LET s == [r EXCEPT !.state = adminState]
    IN  IF ToLower(r.msg.text) = T_cancel
        THEN [s EXCEPT !.pc = "ai_clear", !.report = "send:cancelled"]
        ELSE IF adminState.action = "awaiting_input" /\ adminState.key # ""
        THEN CASE adminState.key = "block_keywords_add" -> Goto(s, "ai_kw_read")
               [] adminState.key = "keyword_responses_add" ->
                    [s EXCEPT !.pc = "gr_read", !.ret = "add"]
               [] OTHER -> Goto(s, "ai_put")
        ELSE [s EXCEPT !.pc = "ai_clear", !.report = "send:state_error"]

\* block-keyword input: newKeyword = finalValue.trim(); it is appended when it
\* is not empty and blockKeywords does not include it
KeywordAddStage(r, blockKeywords) ==
    LET newKeyword == Trim(r.msg.text)
    IN  IF newKeyword # <<>> /\ \A i \in 1..Len(blockKeywords) : blockKeywords[i] # newKeyword
        THEN [r EXCEPT !.kws = Append(blockKeywords, newKeyword), !.pc = "ai_kw_put",
                       !.report = "send:added"]
        ELSE [r EXCEPT !.kws = blockKeywords, !.pc = "ai_clear", !.report = "send:rejected"]

\* the addition that takes any input for a rule
RuleAddStageLoose(r, rules, now) ==
    LET parts == SplitOn(r.msg.text, <<"=", "=", "=">>)
    IN  [r EXCEPT !.rules = Append(rules, [keywords |-> Trim(parts[1]),
                                           response |-> Trim(parts[Len(parts)]),
                                           id |-> RuleId(now, 0)]),
                  !.pc = "ai_ar_put", !.report = "send:added"]

\* auto-reply input: parts = finalValue.split('==='), accepted when there are
\* two parts, both non-empty after trim; id: Date.now()
RuleAddStage(r, rules, now) ==
    LET parts == SplitOn(r.msg.text, <<"=", "=", "=">>)
    IN  IF Len(parts) = 2 /\ Trim(parts[1]) # <<>> /\ Trim(parts[2]) # <<>>
        THEN [r EXCEPT !.rules = Append(rules, [keywords |-> Trim(parts[1]),
                                                response |-> Trim(parts[2]),
                                                id |-> RuleId(now, 0)]),
                       !.pc = "ai_ar_put", !.report = "send:added"]
        ELSE [r EXCEPT !.rules = rules, !.pc = "ai_clear", !.report = "send:rejected"]

\* String(number) for the numbers of the model
RECURSIVE NatStr(_)
NatStr(n) == IF n < 10 THEN DigitStr(n) ELSE NatStr(n \div 10) \o DigitStr(n % 10)
IdStr(id) == NatStr(id.ms) \o (IF id.frac = 0 THEN <<>> ELSE <<".">> \o NatStr(id.frac))

\* handleAdminRuleDelete: rules.filter(rule => rule.id.toString() !== id.toString())
RECURSIVE WithoutId(_, _)
WithoutId(rules, id) ==
    IF rules = <<>> THEN <<>>
    ELSE (IF IdStr(Head(rules).id) # id THEN <<Head(rules)>> ELSE <<>>) \o WithoutId(Tail(rules), id)

\* handleAdminRuleDelete: rules.filter(keyword => keyword !== id)
RECURSIVE WithoutKeyword(_, _)
WithoutKeyword(kws, id) ==
    IF kws = <<>> THEN <<>>
    ELSE (IF Head(kws) # id THEN <<Head(kws)>> ELSE <<>>) \o WithoutKeyword(Tail(kws), id)

\* the caller of getAutoReplyRules goes on with the rules it got
AfterRules(r, rules, now) ==
    CASE r.ret = "menu" -> [r EXCEPT !.rules = rules, !.pc = "mn_autoreply"]
      [] r.ret = "list" -> [r EXCEPT !.rules = rules, !.pc = "ls_send"]
      [] r.ret = "delete" -> [r EXCEPT !.rules = WithoutId(rules, r.data.value), !.pc = "del_put"]
      [] r.ret = "add" -> RuleAddStage(r, rules, now)

\* handleRelayEditedMessage from the row returned by dbUserGetOrCreate on
AfterGetUserEdit(r, row) ==
    [r EXCEPT !.snap = row, !.topicId = row.topic_id,
              !.pc = IF row.topic_id = NoTopic THEN "done" ELSE "ed_get"]

\* the message reached the keyword-block check and matches a block pattern
CountsAsHit(r) ==
    /\ r.pc = "kw_update"
    /\ r.i = FirstMatch(GetBlockKeywords, r.msg.text, 1)
    /\ r.cnt = r.snap.block_count + 1


\* ------------------------------------------------------- handleAdminReply
\* the media fields of a message; Telegram sets document on an animation too
MediaFields(media) ==
    CASE media = "none" -> {}
      [] media = "animation" -> {"animation", "document"}
      [] OTHER -> {media}

\* the fallback chain of handleAdminReply: the first media field it finds
FallbackFor(m) ==
    LET f == MediaFields(m.media)
    IN  CASE "photo" \in f -> "fallback:photo"
          [] "photo" \notin f /\ "document" \in f -> "fallback:document"
          [] {"photo", "document"} \cap f = {} /\ "video" \in f -> "fallback:video"
          [] {"photo", "document", "video"} \cap f = {} /\ "audio" \in f -> "fallback:audio"
          [] {"photo", "document", "video", "audio"} \cap f = {} /\ "voice" \in f -> "fallback:voice"
          [] {"photo", "document", "video", "audio", "voice"} \cap f = {} /\ "sticker" \in f
                -> "fallback:sticker"
          [] {"photo", "document", "video", "audio", "voice", "sticker"} \cap f = {}
                /\ "animation" \in f -> "fallback:animation"
          [] OTHER -> "fallback:notice"

\* the fallback sent whether or not the primary relay call went through
ReplyAlwaysFallsBack(r, ok) == Goto(r, "re_fallback")

\* the catch block that gives up when the message has no media to resend
ReplySilentWithoutMedia(r, ok) ==
    Goto(r, IF ok \/ r.msg.media = "none" THEN "done" ELSE "re_fallback")

\* after sendMessage / copyMessage to the user: done, or the catch block
ReplyAfterPrimary(r, ok) == Goto(r, IF ok THEN "done" ELSE "re_fallback")

\* ------------------------------------------------- calls to the Bot API
\* a failed creation that goes on to the copy all the same
CreateFailedStillCopies(r) ==
    IF r.phase = 1 THEN [r EXCEPT !.pc = "rl_copy1", !.topicId = r.newTopic]
    ELSE Goto(r, "rl_notice_recreate")

\* createTopicForUser threw: the caller's catch of the first creation or of
\* the recreation takes over
CreateFailed(r) ==
    Goto(r, IF r.phase = 1 THEN "rl_notice_create" ELSE "rl_notice_recreate")

\* the ledger entry written for every forwarded message, text or not
LedgerStageAnyContent(r) == Goto(r, "rl_ledger")

\* after a forward that succeeded: the ledger entry, for text messages only
LedgerStage(r) == Goto(r, IF r.msg.text # <<>> THEN "rl_ledger" ELSE "done")

\* a failed step of the propagation that falls back to replacing the thread
ProfileCallFailedRecreates(r) == [r EXCEPT !.pc = "rl_clear", !.oldTopic = r.topicId]

\* updateTopicAndSendCard: every call sits in one try block, whose catch logs
ProfileCallFailed(r) == Goto(r, "done")

\* handleCallbackQuery after answerCallbackQuery, for the actions menu, add,
\* list and delete of "config:<action>:<key>:<value>"
ConfigDispatch(r) ==
    LET d == r.data
    IN  CASE d.action = "menu" ->
                 CASE d.key = "base" -> Goto(r, "mn_base")
                   [] d.key = "autoreply" -> [r EXCEPT !.pc = "gr_read", !.ret = "menu"]
                   [] d.key = "keyword" -> Goto(r, "mn_keyword")
                   [] d.key = "filter" -> Goto(r, "cfg_menu")
                   [] OTHER -> Goto(r, "cfg_delmsg")
          [] d.action = "add" /\ d.key # "" -> Goto(r, "cfg_add")
          [] d.action = "list" /\ d.key = "keyword_responses" ->
                 [r EXCEPT !.pc = "gr_read", !.ret = "list"]
          [] d.action = "list" /\ d.key = "block_keywords" -> Goto(r, "ls_send")
          [] d.action = "delete" /\ d.key = "keyword_responses" /\ d.value # <<>> ->
                 [r EXCEPT !.pc = "gr_read", !.ret = "delete"]
          [] d.action = "delete" /\ d.key = "block_keywords" /\ d.value # <<>> ->
                 Goto(r, "del_kw_read")
          [] OTHER -> Goto(r, "done")

\* A handler suspended at one of these awaits is inside a telegramApi call
\* that touches no table: the call either returns or throws.
ApiPcs == {"hs_welcome", "hs_question", "acs_send", "pm_need_start", "hv_send_ok",
           "hv_send_fail", "kw_send1", "kw_send2", "kw_warn", "flt_notify", "ar_send",
           "ct_card", "rl_notice_create", "rl_copy1", "rl_copy2", "rl_notice_fwd",
           "rl_notice_recreate", "cb_answer", "cb_markup", "cb_confirm",
           "pu_rename", "pu_note", "pu_card",
           "ai_report", "mn_keyword", "mn_base", "mn_autoreply", "ls_send",
           "cfg_delmsg", "del_answer",
           "pin_call", "pin_answer_ok", "pin_answer_fail",
           "cfg_deny", "cfg_answer", "cfg_menu", "cfg_prompt", "ed_notify",
           "re_primary", "re_fallback"}

\* the handler after the telegramApi call it is suspended at has returned
\* (ok) or thrown (~ok), up to its next await
ApiStep(r, ok) ==
    CASE r.pc = "hs_welcome" ->          \* handleStart: sendMessage(welcomeMessage)
            LET s == Logged(r, "send:welcome", ok, NoTopic)
            IN  IF ok THEN Goto(s, "hs_question") ELSE Thrown(s)
      [] r.pc = "hs_question" ->         \* handleStart: sendMessage(verificationQuestion)
            LET s == Logged(r, "send:question", ok, NoTopic)
            IN  IF ok THEN Goto(s, "hs_update") ELSE Thrown(s)
      [] r.pc = "acs_send" ->            \* handleAdminConfigStart: the menu
            LET s == Logged(r, "send:menu", ok, NoTopic)
            IN  IF ok THEN Goto(s, "done") ELSE Thrown(s)
      [] r.pc = "pm_need_start" ->       \* user_state is 'new'
            LET s == Logged(r, "send:need_start", ok, NoTopic)
            IN  IF ok THEN Goto(s, "done") ELSE Thrown(s)
      [] r.pc = "hv_send_ok" ->          \* handleVerification, answer accepted
            LET s == Logged(r, "send:verify_ok", ok, NoTopic)
            IN  IF ok THEN Goto(s, "hv_update") ELSE Thrown(s)
      [] r.pc = "hv_send_fail" ->        \* handleVerification, answer rejected
            LET s == Logged(r, "send:verify_fail", ok, NoTopic)
            IN  IF ok THEN Goto(s, "done") ELSE Thrown(s)
      [] r.pc = "kw_send1" ->            \* threshold reached: blockNotification; a
            LET s == Logged(r, "send:warn", ok, NoTopic)    \* failure lands in the
            IN  IF ok THEN Goto(s, "kw_send2") ELSE KeywordLoop(s, s.i + 1) \* loop's catch
      [] r.pc = "kw_send2" ->            \* threshold reached: autoBlockMessage
            LET s == Logged(r, "send:autoblock", ok, NoTopic)
            IN  IF ok THEN Goto(s, "done") ELSE KeywordLoop(s, s.i + 1)
      [] r.pc = "kw_warn" ->             \* below the threshold: blockNotification
            LET s == Logged(r, "send:warn", ok, NoTopic)
            IN  IF ok THEN Goto(s, "done") ELSE KeywordLoop(s, s.i + 1)
      [] r.pc = "flt_notify" ->          \* filterNotification
            LET s == Logged(r, "send:filtered", ok, NoTopic)
            IN  IF ok THEN Goto(s, "done") ELSE Thrown(s)
      [] r.pc = "ar_send" ->             \* the auto reply; a failure lands in the
            LET s == Logged(r, "send:autoreply", ok, r.i)       \* rule loop's catch
            IN  IF ok THEN Goto(s, "done") ELSE AutoReplyStage(s, s.i + 1)
      [] r.pc = "ct_card" ->             \* createTopicForUser: the profile card
            LET s == Logged(r, "card", ok, r.newTopic)
            IN  IF ~ok THEN CreateFailed(s)
                ELSE IF s.phase = 1 THEN [s EXCEPT !.pc = "rl_copy1", !.topicId = s.newTopic]
                ELSE Goto(s, "rl_copy2")
      [] r.pc = "rl_notice_create" ->    \* the first creation failed
            LET s == Logged(r, "notice:create", ok, NoTopic)
            IN  IF ok THEN Goto(s, "done") ELSE Thrown(s)
      [] r.pc = "rl_copy1" ->            \* tryCopyToTopic(topicId)
            LET s == Logged(r, "copy", ok, r.topicId)
            IN  IF ok THEN LedgerStage(s) ELSE [s EXCEPT !.pc = "rl_clear", !.oldTopic = s.topicId]
      [] r.pc = "rl_copy2" ->            \* tryCopyToTopic(newTopicId)
            LET s == Logged(r, "copy", ok, r.newTopic)
            IN  IF ok THEN LedgerStage(s) ELSE Goto(s, "rl_notice_fwd")
      [] r.pc = "rl_notice_fwd" ->       \* the retry failed; if this send throws,
            LET s == Logged(r, "notice:forward", ok, NoTopic)   \* catch (createErr)
            IN  Goto(s, IF ok THEN "done" ELSE "rl_notice_recreate")
      [] r.pc = "rl_notice_recreate" ->  \* catch (createErr)
            LET s == Logged(r, "notice:recreate", ok, NoTopic)
            IN  IF ok THEN Goto(s, "done") ELSE Thrown(s)
      [] r.pc = "cb_answer" ->           \* answerCallbackQuery
            LET s == Logged(r, "answer", ok, NoTopic)
            IN  IF ok THEN Goto(s, "cb_update") ELSE Thrown(s)
      [] r.pc = "cb_markup" ->           \* editMessageReplyMarkup, inside try/catch
            LET s == Logged(r, "edit:markup", ok, NoTopic)
            IN  Goto(s, IF ok THEN "cb_confirm" ELSE "done")
      [] r.pc = "cb_confirm" ->          \* the confirmation, inside try/catch
            Goto(Logged(r, "send:confirm", ok, NoTopic), "done")
      [] r.pc = "ed_notify" ->           \* the edit notification, inside try/catch
            LET n == [orig |-> IF r.stored.exists /\ r.stored.text # <<>>
                               THEN r.stored.text ELSE OriginalUnavailable,
                      time |-> IF r.stored.exists THEN DateOf(r.stored.date) ELSE TimeUnavailable,
                      new  |-> IF r.msg.text # <<>> THEN r.msg.text ELSE NewUnavailable]
            IN  Goto([Logged(r, "notice:edit", ok, r.topicId) EXCEPT !.note = n], "done")
      [] r.pc = "re_primary" ->          \* handleAdminReply: sendMessage for text,
            LET s == Logged(r, IF r.msg.text # <<>> THEN "reply:text" ELSE "reply:copy",
                            ok, NoTopic)                  \* else copyMessage
            IN  ReplyAfterPrimary(s, ok)
      [] r.pc = "re_fallback" ->         \* the type-specific send, inside try/catch
            Goto(Logged(r, FallbackFor(r.msg), ok, NoTopic), "done")
      [] r.pc = "pin_call" ->            \* handlePinCard: pinChatMessage, inside try
            LET s == Logged(r, "pin", ok, NoTopic)
            IN  Goto(s, IF ok THEN "pin_answer_ok" ELSE "pin_answer_fail")
      [] r.pc = "pin_answer_ok" ->       \* still inside try: a failure is caught
            LET s == Logged(r, "answer", ok, NoTopic)
            IN  Goto(s, IF ok THEN "done" ELSE "pin_answer_fail")
      [] r.pc = "pin_answer_fail" ->     \* the alert sent from the catch block
            LET s == Logged(r, "answer:failed", ok, NoTopic)
            IN  IF ok THEN Goto(s, "done") ELSE Thrown(s)
      [] r.pc = "pu_rename" ->           \* updateTopicAndSendCard: editForumTopic
            LET s == Logged(r, "rename", ok, r.topicId)
            IN  IF ok THEN Goto(s, "pu_note") ELSE ProfileCallFailed(s)
      [] r.pc = "pu_note" ->             \* the update notification into the thread
            LET s == Logged(r, "send:profile_note", ok, r.topicId)
            IN  IF ok THEN Goto(s, "pu_card") ELSE ProfileCallFailed(s)
      [] r.pc = "pu_card" ->             \* the new profile card into the thread
            LET s == Logged(r, "card", ok, r.topicId)
            IN  IF ok THEN Goto(s, "pu_store") ELSE ProfileCallFailed(s)
      [] r.pc = "cfg_deny" ->            \* config callback of a non-admin: the alert
            LET s == Logged(r, "answer:denied", ok, NoTopic)
            IN  IF ok THEN Goto(s, "done") ELSE Thrown(s)
      [] r.pc = "cfg_answer" ->          \* config callback of an admin
            LET s == Logged(r, "answer", ok, NoTopic)
            IN  IF ~ok THEN Thrown(s)
                ELSE IF s.data.action = "toggle" /\ s.data.key # "" /\ s.data.value # <<>>
                THEN Goto(s, "cfg_toggle")
                ELSE IF s.data.action = "edit" /\ s.data.key # ""
                THEN Goto(s, "cfg_edit")
                ELSE ConfigDispatch(s)
      [] r.pc = "cfg_delmsg" ->          \* deleteMessage(...).catch(...), then the
            Goto(Logged(r, "delete:menu", ok, NoTopic), "acs_delete")   \* main menu
      [] r.pc = "ai_report" ->           \* handleAdminConfigInput: the outcome
            LET s == Logged(r, r.report, ok, NoTopic)
            IN  IF ~ok THEN Thrown(s)
                ELSE IF r.report = "send:cancelled" THEN Goto(s, "acs_delete")
                ELSE IF r.report = "send:state_error" THEN Goto(s, "done")
                ELSE MenuAfter(s, s.state.key)
      [] r.pc = "mn_keyword" ->          \* handleAdminKeywordBlockMenu
            LET s == Logged(r, "menu:keyword", ok, NoTopic)
            IN  IF ok THEN Goto(s, "done") ELSE Thrown(s)
      [] r.pc = "mn_base" ->             \* handleAdminBaseConfigMenu
            LET s == Logged(r, "menu:base", ok, NoTopic)
            IN  IF ok THEN Goto(s, "done") ELSE Thrown(s)
      [] r.pc = "mn_autoreply" ->        \* handleAdminAutoReplyMenu, after its read
            LET s == Logged(r, "menu:autoreply", ok, NoTopic)
            IN  IF ok THEN Goto(s, "done") ELSE Thrown(s)
      [] r.pc = "ls_send" ->             \* handleAdminRuleList, after its read
            LET s == Logged(r, "menu:list", ok, NoTopic)
            IN  IF ok THEN Goto(s, "done") ELSE Thrown(s)
      [] r.pc = "del_answer" ->          \* handleAdminRuleDelete: answerCallbackQuery
            LET s == Logged(r, "answer:deleted", ok, NoTopic)   \* then the list again
            IN  IF ~ok THEN Thrown(s)
                ELSE IF s.data.key = "keyword_responses"
                THEN [s EXCEPT !.pc = "gr_read", !.ret = "list"]
                ELSE Goto(s, "ls_send")
      [] r.pc = "cfg_menu" ->            \* handleAdminTypeBlockMenu: editMessageText
            LET s == Logged(r, "edit:menu", ok, NoTopic)
            IN  IF ok THEN Goto(s, "done") ELSE Thrown(s)
      [] r.pc = "cfg_prompt" ->          \* the prompt of the edit action
            LET s == Logged(r, "edit:prompt", ok, NoTopic)
            IN  IF ok THEN Goto(s, "done") ELSE Thrown(s)

\* The records a handler can be in at its next access to a table or to the
\* forum (or at its end), over all outcomes of the Bot API calls in between.
\* Those calls read and write nothing another handler sees, so a handler's
\* run of them is taken as part of the step that precedes it.
RECURSIVE Settle(_)
Settle(r) ==
    IF r.pc \in ApiPcs
    THEN UNION {Settle(ApiStep(r, ok)) : ok \in BOOLEAN}
    ELSE {r}

\* the handler in slot h goes on from record r
Continue(h, r) == \E s \in Settle(r) : handlers' = [handlers EXCEPT ![h] = s]

Hit(r) == IF CountsAsHit(r) THEN [hits EXCEPT ![r.user] = @ + 1] ELSE hits

\* profile cards posted while the handler ran from record r to record s
CardsAfter(r, s) ==
    IF \E k \in (Len(r.out) + 1)..Len(s.out) : s.out[k].c = "card" /\ s.out[k].ok
    THEN cards \cup {s.user} ELSE cards

\* ------------------------------------------------- handlePrivateMessage
\* A private message arrives: handleUpdate -> handlePrivateMessage.  /start
\* and /help go to handleStart (handleAdminConfigStart for an admin) before
\* the users table is looked at; everything else starts with the first
\* SELECT of dbUserGetOrCreate.
StartMessage(h, senders, ids) ==
    /\ Idle(h)
    /\ \E s \in senders, id \in ids, d \in Dates :
      LET u == s[1]
          m == s[2]
      IN
        /\ \A g \in Handlers \ {h} :
              ~(handlers[g].kind = "msg" /\ handlers[g].user = u /\ handlers[g].msgId = id)
        /\ LET r == [IdleHandler EXCEPT !.kind = "msg", !.user = u, !.msg = m,
                                        !.msgId = id, !.date = d,
                                        !.fresh = ~users[u].exists,
                                        !.wasBlocked = users[u].is_blocked]
               n == IF m.text \in {T_start, T_help}
                    THEN Goto(r, IF IsAdminUser(u) THEN "acs_delete" ELSE "hs_welcome")
                    ELSE IF users[u].exists THEN AfterGetUser(r, users[u])
                    ELSE Goto(r, "pm_insert")
           IN  /\ Continue(h, n)
               /\ hits' = Hit(n)
    /\ UNCHANGED <<users, messages, config, nextTopic, cards, binder, clock, picked>>

\* handleAdminConfigStart: dbAdminStateDelete(chatId), then the main menu
AdminConfigStart(h) ==
    /\ At(h, "acs_delete")
    /\ config' = DbConfigDelete(config, AdminStateKey(handlers[h].user))
    /\ picked' = [picked EXCEPT ![handlers[h].user] = <<>>]
    /\ Continue(h, Goto(handlers[h], "acs_send"))
    /\ UNCHANGED <<users, messages, nextTopic, cards, hits, binder, clock>>

\* handleStart: dbUserUpdate(chatId, { user_state: "pending_verification" })
HandleStartUpdate(h) ==
    /\ At(h, "hs_update")
    /\ users' = DbUserUpdate(users, handlers[h].user, [user_state |-> "pending_verification"])
    /\ Continue(h, Goto(handlers[h], "done"))
    /\ UNCHANGED <<messages, config, nextTopic, cards, hits, binder, clock, picked>>

\* dbUserGetOrCreate: INSERT of the default row (user_id is the primary key)
PmInsert(h) ==
    /\ At(h, "pm_insert")
    /\ LET r == handlers[h]
       IN  IF users[r.user].exists
           THEN /\ Continue(h, Thrown(Logged(r, "db:insert", FALSE, NoTopic)))
                /\ users' = users
           ELSE /\ Continue(h, Goto(r, "pm_reselect"))
                /\ users' = [users EXCEPT ![r.user] = DefaultRow]
    /\ UNCHANGED <<messages, config, nextTopic, cards, hits, binder, clock, picked>>

\* dbUserGetOrCreate: second SELECT
PmReselect(h) ==
    /\ At(h, "pm_reselect")
    /\ LET n == IF handlers[h].kind = "edit"
                THEN AfterGetUserEdit(handlers[h], users[handlers[h].user])
                ELSE AfterGetUser(handlers[h], users[handlers[h].user])
       IN  /\ Continue(h, n)
           /\ hits' = Hit(n)
    /\ UNCHANGED <<users, messages, config, nextTopic, cards, binder, clock, picked>>

\* the input handed to the action the admin selected first
AdminStateGetFirstPick(h) ==
    /\ At(h, "pm_adminstate")
    /\ LET r == handlers[h]
           key == AdminStateKey(r.user)
           n == IF key \in DOMAIN config
                THEN AdminInputStage([r EXCEPT !.picked = picked[r.user]],
                                     AwaitingInput(picked[r.user][1]))
                ELSE AfterNoAdminState(r)
       IN  /\ Continue(h, n)
           /\ hits' = Hit(n)
    /\ UNCHANGED <<users, messages, config, nextTopic, cards, binder, clock, picked>>

\* dbAdminStateGet(userId): with an edit session the message is its input
AdminStateGet(h) ==
    /\ At(h, "pm_adminstate")
    /\ LET r == handlers[h]
           key == AdminStateKey(r.user)
           n == IF key \in DOMAIN config
                THEN AdminInputStage([r EXCEPT !.picked = picked[r.user]], config[key])
                ELSE AfterNoAdminState(r)
       IN  /\ Continue(h, n)
           /\ hits' = Hit(n)
    /\ UNCHANGED <<users, messages, config, nextTopic, cards, binder, clock, picked>>

\* ------------------------------------------------- handleAdminConfigInput
\* dbAdminStateDelete(userId), then the report and the menu
AdminClear(h) ==
    /\ At(h, "ai_clear")
    /\ config' = DbConfigDelete(config, AdminStateKey(handlers[h].user))
    /\ picked' = [picked EXCEPT ![handlers[h].user] = <<>>]
    /\ Continue(h, Goto(handlers[h], "ai_report"))
    /\ UNCHANGED <<users, messages, nextTopic, cards, hits, binder, clock>>

\* the input of an edit action: dbConfigPut(adminState.key, finalValue), the
\* text trimmed for verif_a and block_threshold
AdminScalarPut(h) ==
    /\ At(h, "ai_put")
    /\ LET r == handlers[h]
           finalValue == IF r.state.key \in {"verif_a", "block_threshold"}
                         THEN Trim(r.msg.text) ELSE r.msg.text
       IN  /\ config' = DbConfigPut(config, r.state.key,
                                    IF r.state.key = "keyword_responses"
                                    THEN StoredText(finalValue) ELSE finalValue)
           /\ Continue(h, [r EXCEPT !.pc = "ai_clear", !.report = "send:updated"])
    /\ UNCHANGED <<users, messages, nextTopic, cards, hits, binder, clock, picked>>

\* the add that appends without looking for the keyword in the list
AdminKeywordReadNoCheck(h) ==
    /\ At(h, "ai_kw_read")
    /\ LET r == handlers[h]
       IN  Continue(h, IF Trim(r.msg.text) # <<>>
                       THEN [r EXCEPT !.kws = Append(GetBlockKeywords, Trim(r.msg.text)),
                                      !.pc = "ai_kw_put", !.report = "send:added"]
                       ELSE [r EXCEPT !.kws = GetBlockKeywords, !.pc = "ai_clear",
                                      !.report = "send:rejected"])
    /\ UNCHANGED <<users, messages, config, nextTopic, cards, hits, binder, clock, picked>>

\* input of add:block_keywords: getBlockKeywords
AdminKeywordRead(h) ==
    /\ At(h, "ai_kw_read")
    /\ Continue(h, KeywordAddStage(handlers[h], GetBlockKeywords))
    /\ UNCHANGED <<users, messages, config, nextTopic, cards, hits, binder, clock, picked>>

\* a put that reads the list again and appends to what is stored now
AdminKeywordPutMerged(h) ==
    /\ At(h, "ai_kw_put")
    /\ config' = DbConfigPut(config, "block_keywords",
                             Append(GetBlockKeywords, Trim(handlers[h].msg.text)))
    /\ Continue(h, Goto(handlers[h], "ai_clear"))
    /\ UNCHANGED <<users, messages, nextTopic, cards, hits, binder, clock, picked>>

\* dbConfigPut('block_keywords', JSON.stringify(blockKeywords))
AdminKeywordPut(h) ==
    /\ At(h, "ai_kw_put")
    /\ config' = DbConfigPut(config, "block_keywords", handlers[h].kws)
    /\ Continue(h, Goto(handlers[h], "ai_clear"))
    /\ UNCHANGED <<users, messages, nextTopic, cards, hits, binder, clock, picked>>

\* dbConfigPut('keyword_responses', JSON.stringify(rules)) of an addition
AdminRulePut(h) ==
    /\ At(h, "ai_ar_put")
    /\ config' = DbConfigPut(config, "keyword_responses", StoredRules(handlers[h].rules))
    /\ Continue(h, Goto(handlers[h], "ai_clear"))
    /\ UNCHANGED <<users, messages, nextTopic, cards, hits, binder, clock, picked>>

\* ------------------------------------------------------ getAutoReplyRules
\* getConfig('keyword_responses'), JSON.parse, and for legacy text the
\* conversion; the clock moves on where Date.now() was read for an identity
GetRulesRead(h) ==
    /\ At(h, "gr_read")
    /\ LET r == handlers[h]
           res == ReadAutoReplyRules(GetConfig("keyword_responses", StoredRules(<<>>)), clock)
           s == [r EXCEPT !.jsonString = GetConfig("keyword_responses", StoredRules(<<>>))]
           n == IF res.write THEN [s EXCEPT !.rules = res.rules, !.pc = "gr_put"]
                ELSE AfterRules(s, res.rules, clock)
       IN  /\ (res.write \/ n.pc = "ai_ar_put") => clock <= MaxIds
           /\ Continue(h, n)
           /\ clock' = IF res.write \/ n.pc = "ai_ar_put" THEN clock + 1 ELSE clock
    /\ UNCHANGED <<users, messages, config, nextTopic, cards, hits, binder, picked>>

\* the conversion: dbConfigPut('keyword_responses', JSON.stringify(newRules))
GetRulesPut(h) ==
    /\ At(h, "gr_put")
    /\ config' = DbConfigPut(config, "keyword_responses", StoredRules(handlers[h].rules))
    /\ LET n == AfterRules(handlers[h], handlers[h].rules, clock)
       IN  /\ n.pc = "ai_ar_put" => clock <= MaxIds
           /\ Continue(h, n)
           /\ clock' = IF n.pc = "ai_ar_put" THEN clock + 1 ELSE clock
    /\ UNCHANGED <<users, messages, nextTopic, cards, hits, binder, picked>>

\* admins skip verification: dbUserUpdate(userId, { user_state: "verified" })
PmForceVerify(h) ==
    /\ At(h, "pm_forceverify")
    /\ LET n == StateDispatch(handlers[h])
       IN  /\ users' = DbUserUpdate(users, handlers[h].user, [user_state |-> "verified"])
           /\ Continue(h, n)
           /\ hits' = Hit(n)
    /\ UNCHANGED <<messages, config, nextTopic, cards, binder, clock, picked>>

\* handleVerification: dbUserUpdate(chatId, { user_state: "verified" })
VerifyUpdate(h) ==
    /\ At(h, "hv_update")
    /\ users' = DbUserUpdate(users, handlers[h].user, [user_state |-> "verified"])
    /\ Continue(h, Goto(handlers[h], "done"))
    /\ UNCHANGED <<messages, config, nextTopic, cards, hits, binder, clock, picked>>

\* ---------------------------------------------------- keyword-block check
\* dbUserUpdate(userId, { block_count: currentCount })
KwUpdateCount(h) ==
    /\ At(h, "kw_update")
    /\ LET r == handlers[h]
       IN  /\ users' = DbUserUpdate(users, r.user, [block_count |-> r.cnt])
           /\ Continue(h, Goto(r, IF r.cnt >= r.thr THEN "kw_block" ELSE "kw_warn"))
    /\ UNCHANGED <<messages, config, nextTopic, cards, hits, binder, clock, picked>>

\* threshold reached: dbUserUpdate(userId, { is_blocked: 1 })
KwBlock(h) ==
    /\ At(h, "kw_block")
    /\ users' = DbUserUpdate(users, handlers[h].user, [is_blocked |-> TRUE])
    /\ Continue(h, Goto(handlers[h], "kw_send1"))
    /\ UNCHANGED <<messages, config, nextTopic, cards, hits, binder, clock, picked>>

\* -------------------------------------------------------- handleRelayToTopic
\* message_thread_id of the topic createForumTopic has just made
NewTopicId(n) == n

\* createTopicForUser: telegramApi("createForumTopic")
CreateForumTopic(h) ==
    /\ At(h, "ct_create")
    /\ \E ok \in BOOLEAN :
        /\ ok => nextTopic <= MaxTopics
        /\ LET r == Logged(handlers[h], "create", ok, IF ok THEN NewTopicId(nextTopic) ELSE NoTopic)
           IN  /\ Continue(h, IF ok THEN [r EXCEPT !.pc = "ct_bind", !.newTopic = NewTopicId(nextTopic)]
                                    ELSE CreateFailed(r))
               /\ nextTopic' = IF ok THEN nextTopic + 1 ELSE nextTopic
    /\ UNCHANGED <<users, messages, config, cards, hits, binder, clock, picked>>

\* createTopicForUser: dbUserUpdate(userId, { topic_id: newTopicId, user_info }),
\* then the profile card and, if it is posted, the copy of the message
BindTopic(h) ==
    /\ At(h, "ct_bind")
    /\ users' = DbUserUpdate(users, handlers[h].user, [topic_id |-> handlers[h].newTopic])
    /\ Continue(h, Goto(handlers[h], "ct_card"))
    /\ cards' = CardsAfter(handlers[h], handlers'[h])
    /\ binder' = [binder EXCEPT ![handlers[h].user] = h]
    /\ UNCHANGED <<messages, config, nextTopic, hits, clock, picked>>

\* the recovery without the dbUserUpdate that clears the binding
ClearBindingSkipped(h) ==
    /\ At(h, "rl_clear")
    /\ Continue(h, [handlers[h] EXCEPT !.pc = "ct_create", !.phase = 2])
    /\ UNCHANGED <<users, messages, config, nextTopic, cards, hits, binder, clock, picked>>

\* the copy failed: dbUserUpdate(userId, { topic_id: null }), then recreate
ClearBinding(h) ==
    /\ At(h, "rl_clear")
    /\ users' = DbUserUpdate(users, handlers[h].user, [topic_id |-> NoTopic])
    /\ Continue(h, [handlers[h] EXCEPT !.pc = "ct_create", !.phase = 2])
    /\ binder' = [binder EXCEPT ![handlers[h].user] = h]
    /\ UNCHANGED <<messages, config, nextTopic, cards, hits, clock, picked>>

\* dbMessageDataPut(userId, message_id, { text, date })
DbMessageDataPut(tbl, userId, messageId, data) ==
    [tbl EXCEPT ![<<userId, messageId>>] = [exists |-> TRUE, text |-> data.text, date |-> data.date]]

LedgerPut(h) ==
    /\ At(h, "rl_ledger")
    /\ LET r == handlers[h]
       IN  /\ messages' = DbMessageDataPut(messages, r.user, r.msgId, [text |-> r.msg.text, date |-> r.date])
           /\ Continue(h, Goto(r, "done"))
    /\ UNCHANGED <<users, config, nextTopic, cards, hits, binder, clock, picked>>

\* ------------------------------------------------ handleRelayEditedMessage
StartPrivateMessage(h, senders) == StartMessage(h, senders, MsgIds)

\* An edited_message update of a private chat arrives: dbUserGetOrCreate
StartEdit(h, editors, texts) ==
    /\ Idle(h)
    /\ \E u \in editors, t \in texts, id \in MsgIds, d \in EditDates :
        /\ \A g \in Handlers \ {h} :
              ~(handlers[g].kind = "edit" /\ handlers[g].user = u /\ handlers[g].msgId = id)
        /\ LET r == [IdleHandler EXCEPT !.kind = "edit", !.user = u, !.msgId = id, !.date = d,
                                        !.msg = Message(t, "none", "none", FALSE)]
           IN  Continue(h, IF users[u].exists THEN AfterGetUserEdit(r, users[u])
                           ELSE Goto(r, "pm_insert"))
    /\ UNCHANGED <<users, messages, config, nextTopic, cards, hits, binder, clock, picked>>

\* the lookup after which a missing entry is written like a found one
EditGetAlwaysPuts(h) ==
    /\ At(h, "ed_get")
    /\ LET r == handlers[h]
           e == messages[<<r.user, r.msgId>>]
       IN  Continue(h, [r EXCEPT !.stored = e, !.pc = "ed_put"])
    /\ UNCHANGED <<users, messages, config, nextTopic, cards, hits, binder, clock, picked>>

\* dbMessageDataGet(userId, message_id)
EditGet(h) ==
    /\ At(h, "ed_get")
    /\ LET r == handlers[h]
           e == messages[<<r.user, r.msgId>>]
       IN  Continue(h, [r EXCEPT !.stored = e, !.pc = IF e.exists THEN "ed_put" ELSE "ed_notify"])
    /\ UNCHANGED <<users, messages, config, nextTopic, cards, hits, binder, clock, picked>>

\* the overwrite that stamps the entry with the date of the edit update
EditPutStampsEdit(h) ==
    /\ At(h, "ed_put")
    /\ LET r == handlers[h]
       IN  /\ messages' = DbMessageDataPut(messages, r.user, r.msgId,
                                           [text |-> r.msg.text, date |-> r.date])
           /\ Continue(h, Goto(r, "ed_notify"))
    /\ UNCHANGED <<users, config, nextTopic, cards, hits, binder, clock, picked>>

\* dbMessageDataPut(userId, message_id, { text: new text, date: storedData.date }),
\* then the notification into the thread
EditPut(h) ==
    /\ At(h, "ed_put")
    /\ LET r == handlers[h]
       IN  /\ messages' = DbMessageDataPut(messages, r.user, r.msgId,
                                           [text |-> r.msg.text, date |-> r.stored.date])
           /\ Continue(h, Goto(r, "ed_notify"))
    /\ UNCHANGED <<users, config, nextTopic, cards, hits, binder, clock, picked>>

\* --------------------------------------------------------- handleAdminReply
\* A message of a human arrives in a thread of the admin group:
\* dbTopicUserGet(topicId), then the relay to the user it returns
AdminReply(h, shapes) ==
    /\ Idle(h)
    /\ \E t \in 1..MaxTopics, m \in shapes :
        /\ t < nextTopic
        /\ LET r == [IdleHandler EXCEPT !.kind = "reply", !.msg = m, !.topicId = t, !.from = "a1"]
           IN  IF TopicUsers(t) = {}
               THEN Continue(h, Goto(r, "done"))
               ELSE \E u \in TopicUsers(t) :
                        Continue(h, [r EXCEPT !.user = u, !.pc = "re_primary"])
    /\ UNCHANGED <<users, messages, config, nextTopic, cards, hits, binder, clock, picked>>

\* ------------------------------------------ block / unblock button presses
\* handleCallbackQuery for data "block:<userId>" / "unblock:<userId>" /
\* "pin_card:<userId>", pressed by a member of the admin group under a profile
\* card: handlePinCard, or answerCallbackQuery and the block / unblock handler
StartCallback(h) ==
    /\ Idle(h)
    /\ \E u \in cards, a \in {"block", "unblock", "pin_card"}, f \in GroupMembers :
        Continue(h, [IdleHandler EXCEPT !.pc = IF a = "pin_card" THEN "pin_call" ELSE "cb_answer",
                                        !.kind = a, !.user = u, !.from = f,
                                        !.wasBlocked = users[u].is_blocked])
    /\ UNCHANGED <<users, messages, config, nextTopic, cards, hits, binder, clock, picked>>

\* handleCallbackQuery for data "config:<action>:<key>:<value>", pressed in a
\* private chat with the bot: the admin check, then answerCallbackQuery
StartConfigCallback(h, froms, datas) ==
    /\ Idle(h)
    /\ \E f \in froms, d \in datas :
        Continue(h, [IdleHandler EXCEPT !.pc = IF IsAdminUser(f) THEN "cfg_answer" ELSE "cfg_deny",
                                        !.kind = "config", !.user = f, !.from = f, !.data = d])
    /\ UNCHANGED <<users, messages, config, nextTopic, cards, hits, binder, clock, picked>>

\* A configuration button the bot has shown is pressed in the private chat:
\* Telegram hands its callback_data back, handleCallbackQuery splits it
PressButton(h, froms, buttons) ==
    /\ Idle(h)
    /\ \E f \in froms, b \in buttons :
        Continue(h, [IdleHandler EXCEPT !.pc = IF IsAdminUser(f) THEN "cfg_answer" ELSE "cfg_deny",
                                        !.kind = "config", !.user = f, !.from = f,
                                        !.data = DecodeData(CallbackData(b)), !.target = b,
                                        !.picked = picked[f]])
    /\ UNCHANGED <<users, messages, config, nextTopic, cards, hits, binder, clock, picked>>

\* config:toggle:<key>:<value>: dbConfigPut(key, value), then the filter menu
ConfigToggle(h) ==
    /\ At(h, "cfg_toggle")
    /\ config' = DbConfigPut(config, handlers[h].data.key, handlers[h].data.value)
    /\ Continue(h, Goto(handlers[h], "cfg_menu"))
    /\ UNCHANGED <<users, messages, nextTopic, cards, hits, binder, clock, picked>>

\* config:edit:<key>: dbAdminStatePut(chatId, { action: 'awaiting_input', key }),
\* then the prompt for the keys that have one
ConfigEditStart(h) ==
    /\ At(h, "cfg_edit")
    /\ config' = DbConfigPut(config, AdminStateKey(handlers[h].user),
                             AwaitingInput(handlers[h].data.key))
    /\ picked' = [picked EXCEPT ![handlers[h].user] = Picks(@, handlers[h].data.key)]
    /\ Continue(h, Goto(handlers[h], IF handlers[h].data.key \in EditKeys THEN "cfg_prompt" ELSE "done"))
    /\ UNCHANGED <<users, messages, nextTopic, cards, hits, binder, clock>>

\* config:add:<key>: dbAdminStatePut(chatId, { action: 'awaiting_input',
\* key: key + '_add' }), then the prompt for the two lists
ConfigAddStart(h) ==
    /\ At(h, "cfg_add")
    /\ LET r == handlers[h]
           newKey == r.data.key \o "_add"
       IN  /\ config' = DbConfigPut(config, AdminStateKey(r.user), AwaitingInput(newKey))
           /\ picked' = [picked EXCEPT ![r.user] = Picks(@, newKey)]
           /\ Continue(h, Goto(r, IF r.data.key \in {"keyword_responses", "block_keywords"}
                                  THEN "cfg_prompt" ELSE "done"))
    /\ UNCHANGED <<users, messages, nextTopic, cards, hits, binder, clock>>

\* handleAdminRuleDelete for block_keywords: getBlockKeywords and the filter
DeleteKeywordRead(h) ==
    /\ At(h, "del_kw_read")
    /\ Continue(h, [handlers[h] EXCEPT !.kws = WithoutKeyword(GetBlockKeywords, handlers[h].data.value),
                                       !.pc = "del_put"])
    /\ UNCHANGED <<users, messages, config, nextTopic, cards, hits, binder, clock, picked>>

\* handleAdminRuleDelete: dbConfigPut(key, JSON.stringify(rules)), then the
\* answer and the list
DeletePut(h) ==
    /\ At(h, "del_put")
    /\ LET r == handlers[h]
       IN  /\ config' = DbConfigPut(config, r.data.key,
                                    IF r.data.key = "keyword_responses"
                                    THEN StoredRules(r.rules) ELSE r.kws)
           /\ Continue(h, Goto(r, "del_answer"))
    /\ UNCHANGED <<users, messages, nextTopic, cards, hits, binder, clock, picked>>

\* the unblock that forgets to reset block_count
CallbackUpdateKeepsCount(h) ==
    /\ At(h, "cb_update")
    /\ LET r == handlers[h]
       IN  /\ users' = DbUserUpdate(users, r.user, [is_blocked |-> r.kind = "block"])
           /\ hits' = hits
           /\ Continue(h, Goto(r, "cb_markup"))
    /\ UNCHANGED <<messages, config, nextTopic, cards, binder, clock, picked>>

\* handleBlockUser / handleUnblockUser: the dbUserUpdate, then the card's
\* buttons are edited and the confirmation is sent
CallbackUpdate(h) ==
    /\ At(h, "cb_update")
    /\ LET r == handlers[h]
       IN  /\ users' = IF r.kind = "block"
                       THEN DbUserUpdate(users, r.user, [is_blocked |-> TRUE])
                       ELSE DbUserUpdate(users, r.user, [is_blocked |-> FALSE, block_count |-> 0])
           /\ hits' = IF r.kind = "unblock" THEN [hits EXCEPT ![r.user] = 0] ELSE hits
           /\ Continue(h, Goto(r, "cb_markup"))
    /\ UNCHANGED <<messages, config, nextTopic, cards, binder, clock, picked>>

\* ------------------------------------------------- updateTopicAndSendCard
\* The caller has seen that the name of a user with a bound thread changed and
\* passes that thread: dbUserGetOrCreate for the block state, then the rename,
\* the notification and the new card
StartProfileChange(h) ==
    /\ Idle(h)
    /\ \E u \in UserIds :
        /\ users[u].exists /\ users[u].topic_id # NoTopic
        /\ LET r == [IdleHandler EXCEPT !.kind = "profile", !.user = u, !.snap = users[u],
                                        !.topicId = users[u].topic_id, !.pc = "pu_rename"]
           IN  /\ Continue(h, r)
               /\ cards' = CardsAfter(r, handlers'[h])
    /\ UNCHANGED <<users, messages, config, nextTopic, hits, binder, clock, picked>>

\* dbUserUpdate(userId, { user_info: updatedInfo }): user_info_json is the only
\* column written, and it is not among the columns of the model's row
ProfileStore(h) ==
    /\ At(h, "pu_store")
    /\ users' = DbUserUpdate(users, handlers[h].user, [exists |-> TRUE])
    /\ Continue(h, Goto(handlers[h], "done"))
    /\ UNCHANGED <<messages, config, nextTopic, cards, hits, binder, clock, picked>>

\* the invocation has returned; its slot is free for the next update
Retire(h) ==
    /\ handlers[h].pc = "done"
    /\ handlers' = [handlers EXCEPT ![h] = IdleHandler]
    /\ UNCHANGED <<users, messages, config, nextTopic, cards, hits, binder, clock, picked>>

\* the invocation has returned and its slot is not used again: the record
\* stays as it was at the return
Rest(h) ==
    /\ handlers[h].pc = "done"
    /\ handlers' = [handlers EXCEPT ![h].pc = "returned"]
    /\ UNCHANGED <<users, messages, config, nextTopic, cards, hits, binder, clock, picked>>

\* one step of an ordinary user's message or of a button press in slot h
Step(h) ==
    \/ HandleStartUpdate(h)
    \/ AdminConfigStart(h)
    \/ PmInsert(h)
    \/ PmReselect(h)
    \/ VerifyUpdate(h)
    \/ KwUpdateCount(h)
    \/ KwBlock(h)
    \/ CreateForumTopic(h)
    \/ BindTopic(h)
    \/ ClearBinding(h)
    \/ LedgerPut(h)
    \/ CallbackUpdate(h)

\* ----------------------------------------------------------- specifications
M_three == Message(T_three, "none", "none", FALSE)
M_photo == Message(T_empty, "photo", "none", FALSE)

\* Gatekeeping and relay of one ordinary user, one update at a time; the
\* admin uses the private chat for the configuration menu only.
PipelineSenders ==
    ({"u1"} \X Messages) \cup {<<"a1", m>> : m \in {n \in Messages : n.text \in {T_start, T_help}}}

Next ==
    \E h \in {"h1"} :
        \/ StartPrivateMessage(h, PipelineSenders)
        \/ StartCallback(h)
        \/ Step(h)
        \/ Retire(h)

Spec == Init /\ [][Next]_vars

\* The same without the block / unblock buttons: messages only.
NextCount ==
    \E h \in {"h1"} :
        \/ StartPrivateMessage(h, PipelineSenders)
        \/ HandleStartUpdate(h)
        \/ AdminConfigStart(h)
        \/ PmInsert(h)
        \/ PmReselect(h)
        \/ VerifyUpdate(h)
        \/ KwUpdateCount(h)
        \/ KwBlock(h)
        \/ CreateForumTopic(h)
        \/ BindTopic(h)
        \/ ClearBinding(h)
        \/ LedgerPut(h)
        \/ Retire(h)

SpecCount == Init /\ [][NextCount]_vars

\* The relay engine under concurrency: a verified user and an admin who has
\* not written yet send forwardable messages, handled by invocations that
\* interleave at every access to the tables and to the forum.
RelaySenders == {"u1", "a1"} \X {M_three, M_photo}

InitRelay ==
    /\ users = [u \in UserIds |->
                  IF u = "u1" THEN [DefaultRow EXCEPT !.user_state = "verified"] ELSE NoRow]
    /\ messages = [k \in UserIds \X MsgIds |-> NoEntry]
    /\ config \in InitConfigs
    /\ nextTopic = 1
    /\ handlers = [h \in Handlers |-> IdleHandler]
    /\ cards = {}
    /\ hits = [u \in UserIds |-> 0]
    /\ binder = [u \in UserIds |-> "none"]
    /\ clock = 1
    /\ picked = [u \in UserIds |-> <<>>]

NextRelay ==
    \E h \in Handlers :
        \/ StartPrivateMessage(h, RelaySenders)
        \/ PmInsert(h)
        \/ PmReselect(h)
        \/ AdminStateGet(h)
        \/ PmForceVerify(h)
        \/ CreateForumTopic(h)
        \/ BindTopic(h)
        \/ ClearBinding(h)
        \/ LedgerPut(h)
        \/ Retire(h)

SpecRelay == InitRelay /\ [][NextRelay]_vars

\* The content-type filter over every message shape and switch setting: an
\* admin toggles the switches from the filter menu, a verified user with a
\* bound thread sends messages of every shape.  The forum hands out no
\* further topic, so a failed copy ends with the recreation notice.
MediaKinds == {"none", "audio", "voice", "sticker", "animation", "photo", "video", "document"}
\* message.text is set for messages without media only; entities need text or
\* a caption
Shapes ==
    {m \in [text : {T_empty, T_hi}, media : MediaKinds, fwd : {"none", "user", "channel"},
            link : BOOLEAN] :
        /\ m.media # "none" => m.text = T_empty
        /\ m.link => (m.text # T_empty \/ m.media # "none")}
FilterSenders == {"u1"} \X Shapes
ToggleDatas ==
    {[action |-> "toggle", key |-> k, value |-> V_false] : k \in FilterKeys}
        \cup {[action |-> "toggle", key |-> "enable_forward_forwarding", value |-> V_true]}

InitFilter ==
    /\ users = [u \in UserIds |->
                  IF u = "u1" THEN [DefaultRow EXCEPT !.user_state = "verified", !.topic_id = 1]
                  ELSE NoRow]
    /\ messages = [k \in UserIds \X MsgIds |-> NoEntry]
    /\ config = BaseConfig(<<<<"b", "a", "d">>>>)
    /\ nextTopic = MaxTopics + 1
    /\ handlers = [h \in Handlers |-> IdleHandler]
    /\ cards = {"u1"}
    /\ hits = [u \in UserIds |-> 0]
    /\ binder = [u \in UserIds |-> "none"]
    /\ clock = 1
    /\ picked = [u \in UserIds |-> <<>>]

NextFilter ==
    \E h \in {"h1"} :
        \/ StartPrivateMessage(h, FilterSenders)
        \/ StartConfigCallback(h, {"a1", "u1"}, ToggleDatas)
        \/ ConfigToggle(h)
        \/ CreateForumTopic(h)
        \/ ClearBinding(h)
        \/ LedgerPut(h)
        \/ Retire(h)

SpecFilter == InitFilter /\ [][NextFilter]_vars

\* The admin group: a verified user writes, admins answer in the thread and
\* members of the group press the buttons of the profile card; the admin opens
\* the menu and presses configuration buttons in the private chat, which a
\* user without admin rights tries as well.
ReplyShapes ==
    {m \in Shapes : m.fwd = "none" /\ ~m.link}
GroupDatas ==
    {[action |-> "toggle", key |-> "enable_text_forwarding", value |-> V_false],
     [action |-> "edit", key |-> "block_threshold", value |-> <<>>],
     [action |-> "edit", key |-> "keyword_responses", value |-> <<>>]}
GroupSenders ==
    ({"u1"} \X {M_three, M_photo}) \cup {<<"a1", Message(T_start, "none", "none", FALSE)>>}

NextGroup ==
    \E h \in {"h1"} :
        \/ StartPrivateMessage(h, GroupSenders)
        \/ AdminConfigStart(h)
        \/ CreateForumTopic(h)
        \/ BindTopic(h)
        \/ ClearBinding(h)
        \/ LedgerPut(h)
        \/ AdminReply(h, ReplyShapes)
        \/ StartCallback(h)
        \/ CallbackUpdate(h)
        \/ StartProfileChange(h)
        \/ ProfileStore(h)
        \/ StartConfigCallback(h, {"a1", "u1"}, GroupDatas)
        \/ ConfigToggle(h)
        \/ ConfigEditStart(h)
        \/ Retire(h)

SpecGroup == InitRelay /\ [][NextGroup]_vars

\* Edits of forwarded messages, one update at a time: a verified user with a
\* bound thread sends a text message and edits it again and again; message
\* ids are never used twice in a chat, so a new message is sent only while no
\* ledger entry has its id.  An admin who never wrote edits a message too.
EditTexts == {T_hi, T_bad, T_three}
EditSenders ==
    IF messages[<<"u1", 1>>].exists THEN {} ELSE {"u1"} \X {M_three, M_photo}

NextEdit ==
    \E h \in {"h1"} :
        \/ StartPrivateMessage(h, EditSenders)
        \/ StartEdit(h, {"u1", "a1"}, EditTexts)
        \/ PmInsert(h)
        \/ PmReselect(h)
        \/ EditGet(h)
        \/ EditPut(h)
        \/ CreateForumTopic(h)
        \/ BindTopic(h)
        \/ ClearBinding(h)
        \/ LedgerPut(h)
        \/ Retire(h)

SpecEdit == InitRelay /\ [][NextEdit]_vars

\* The configuration menu of one admin, one update at a time: the admin
\* presses the buttons of the menus, of the prompts and of the lists, and sends
\* texts, with or without an edit session.  Text forwarding is switched off, so
\* a text that is no input ends at the filter.
SessionTexts == {T_cancel, T_x, T_blank, T_rule}
SessionSenders == {"a1"} \X {Message(t, "none", "none", FALSE) : t \in SessionTexts}
MenuButtons ==
    {[action |-> "edit", key |-> "verif_a", value |-> <<>>],
     [action |-> "add", key |-> "block_keywords", value |-> <<>>],
     [action |-> "add", key |-> "keyword_responses", value |-> <<>>],
     [action |-> "menu", key |-> "", value |-> <<>>],
     [action |-> "menu", key |-> "keyword", value |-> <<>>],
     [action |-> "menu", key |-> "autoreply", value |-> <<>>]}
\* the delete buttons handleAdminRuleList shows for the stored lists
DeleteButtons ==
    {[action |-> "delete", key |-> "block_keywords", value |-> GetBlockKeywords[i]] :
        i \in 1..Len(GetBlockKeywords)}
    \cup {[action |-> "delete", key |-> "keyword_responses", value |-> IdStr(GetAutoReplyRules[i].id)] :
        i \in 1..Len(GetAutoReplyRules)}

InitSession ==
    /\ users = [u \in UserIds |->
                  IF u = "a1" THEN [DefaultRow EXCEPT !.user_state = "verified"] ELSE NoRow]
    /\ messages = [k \in UserIds \X MsgIds |-> NoEntry]
    /\ config = DbConfigPut(BaseConfig(<<>>), "enable_text_forwarding", V_false)
    /\ nextTopic = 1
    /\ handlers = [h \in Handlers |-> IdleHandler]
    /\ cards = {}
    /\ hits = [u \in UserIds |-> 0]
    /\ binder = [u \in UserIds |-> "none"]
    /\ clock = 1
    /\ picked = [u \in UserIds |-> <<>>]

NextSession ==
    \E h \in {"h1"} :
        \/ StartPrivateMessage(h, SessionSenders)
        \/ PressButton(h, {"a1"}, MenuButtons)
        \/ AdminStateGet(h)
        \/ AdminConfigStart(h)
        \/ ConfigEditStart(h)
        \/ ConfigAddStart(h)
        \/ AdminKeywordRead(h)
        \/ AdminKeywordPut(h)
        \/ AdminScalarPut(h)
        \/ AdminRulePut(h)
        \/ AdminClear(h)
        \/ GetRulesRead(h)
        \/ KwUpdateCount(h)
        \/ KwBlock(h)
        \/ Retire(h)

SpecSession == InitSession /\ [][NextSession]_vars

\* The lists of the configuration menu, one update at a time: the admin has
\* added the block keywords "a", "a:b" and "x", the auto-reply list holds an
\* added rule and one converted from the legacy format; the admin opens the
\* lists, presses delete buttons and uses the switches of the filter menu.
ListButtons ==
    {[action |-> "list", key |-> "block_keywords", value |-> <<>>],
     [action |-> "list", key |-> "keyword_responses", value |-> <<>>],
     [action |-> "toggle", key |-> "enable_link_forwarding", value |-> V_false],
     [action |-> "toggle", key |-> "enable_link_forwarding", value |-> V_true],
     [action |-> "edit", key |-> "welcome_msg", value |-> <<>>],
     [action |-> "add", key |-> "block_keywords", value |-> <<>>]}

InitList ==
    /\ users = [u \in UserIds |->
                  IF u = "a1" THEN [DefaultRow EXCEPT !.user_state = "verified"] ELSE NoRow]
    /\ messages = [k \in UserIds \X MsgIds |-> NoEntry]
    /\ config = [k \in {"block_keywords", "keyword_responses"} |->
                    IF k = "block_keywords" THEN <<T_a, T_ab, T_x>>
                    ELSE StoredRules(<<[keywords |-> T_hi, response |-> <<"y", "o">>, id |-> RuleId(1, 1)],
                                       [keywords |-> T_x, response |-> <<"y", "o">>, id |-> RuleId(2, 0)]>>)]
    /\ nextTopic = 1
    /\ handlers = [h \in Handlers |-> IdleHandler]
    /\ cards = {}
    /\ hits = [u \in UserIds |-> 0]
    /\ binder = [u \in UserIds |-> "none"]
    /\ clock = 3
    /\ picked = [u \in UserIds |-> <<>>]

NextList ==
    \E h \in {"h1"} :
        \/ PressButton(h, {"a1"}, ListButtons \cup DeleteButtons)
        \/ ConfigToggle(h)
        \/ ConfigEditStart(h)
        \/ ConfigAddStart(h)
        \/ GetRulesRead(h)
        \/ DeleteKeywordRead(h)
        \/ DeletePut(h)
        \/ Retire(h)

SpecList == InitList /\ [][NextList]_vars

\* The auto-reply list of a deployment that still has the legacy text: the
\* value getConfig returns for keyword_responses (from the table, or from the
\* environment variable KEYWORD_RESPONSES while the table has no row) is one
\* of the texts below; the admin opens the auto-reply menu and the list and
\* deletes rules.
LegacyTexts ==
    { <<"h", "i", "=", "=", "=", "y", "o">>,                  \* one rule
      <<"a", "/", "b", "=", "=", "=", "c">>,                  \* a pattern with "/"
      <<"\"", "h", "i", "=", "=", "=", "y", "o", "\"">>,      \* the line in double quotes
      <<"/", "/", "c", "\n", " ", "h", "i", " ", "=", "=", "=", " ", "y", "o">>,
      <<"h", "i", "=", "=", "=", "y", "o", "\n", "x", "=", "=", "=", "y">>,
      <<"g", "a", "r", "b", "a", "g", "e">>,                  \* no rule in it
      <<"1", "2">> }                                          \* a JSON number
LegacyButtons ==
    {[action |-> "menu", key |-> "autoreply", value |-> <<>>],
     [action |-> "list", key |-> "keyword_responses", value |-> <<>>]}

InitLegacy ==
    /\ users = [u \in UserIds |->
                  IF u = "a1" THEN [DefaultRow EXCEPT !.user_state = "verified"] ELSE NoRow]
    /\ messages = [k \in UserIds \X MsgIds |-> NoEntry]
    /\ \E t \in LegacyTexts : config = [k \in {"keyword_responses"} |-> StoredText(t)]
    /\ nextTopic = 1
    /\ handlers = [h \in Handlers |-> IdleHandler]
    /\ cards = {}
    /\ hits = [u \in UserIds |-> 0]
    /\ binder = [u \in UserIds |-> "none"]
    /\ clock = 1
    /\ picked = [u \in UserIds |-> <<>>]

NextLegacy ==
    \E h \in {"h1"} :
        \/ PressButton(h, {"a1"}, LegacyButtons \cup DeleteButtons)
        \/ GetRulesRead(h)
        \/ GetRulesPut(h)
        \/ DeletePut(h)
        \/ Retire(h)

SpecLegacy == InitLegacy /\ [][NextLegacy]_vars

\* The block-keyword list under concurrency: two admins press the add button
\* and the delete buttons and answer the prompt, handled by invocations that
\* interleave at every access to the config table.  An admin writes only while
\* the prompt is open.
KeywordTexts == {T_x, T_a, T_blank}
KeywordSenders ==
    {s \in AdminIds \X {Message(t, "none", "none", FALSE) : t \in KeywordTexts} :
        AdminStateKey(s[1]) \in DOMAIN config}
KeywordButtons ==
    {[action |-> "add", key |-> "block_keywords", value |-> <<>>]}
        \cup {b \in DeleteButtons : b.key = "block_keywords"}

InitKeywords ==
    /\ users = [u \in UserIds |->
                  IF u \in AdminIds THEN [DefaultRow EXCEPT !.user_state = "verified"] ELSE NoRow]
    /\ messages = [k \in UserIds \X MsgIds |-> NoEntry]
    /\ config \in {BaseConfig(<<>>), BaseConfig(<<T_x>>)}
    /\ nextTopic = 1
    /\ handlers = [h \in Handlers |-> IdleHandler]
    /\ cards = {}
    /\ hits = [u \in UserIds |-> 0]
    /\ binder = [u \in UserIds |-> "none"]
    /\ clock = 1
    /\ picked = [u \in UserIds |-> <<>>]

NextKeywords ==
    \E h \in Handlers :
        \/ StartPrivateMessage(h, KeywordSenders)
        \/ PressButton(h, AdminIds, KeywordButtons)
        \/ ConfigAddStart(h)
        \/ AdminStateGet(h)
        \/ AdminKeywordRead(h)
        \/ AdminKeywordPut(h)
        \/ AdminClear(h)
        \/ DeleteKeywordRead(h)
        \/ DeletePut(h)
        \/ Retire(h)

SpecKeywords == InitKeywords /\ [][NextKeywords]_vars

\* Rule lists with patterns that do not compile, one update at a time: a
\* verified user writes while the first block keyword and the first auto-reply
\* rule are "(".
PatternRules ==
    StoredRules(<<[keywords |-> T_open, response |-> <<"n", "o">>, id |-> RuleId(0, 0)],
                  [keywords |-> T_hi, response |-> <<"y", "o">>, id |-> RuleId(0, 1)]>>)
PatternConfigs ==
    { [k \in {"block_keywords", "block_threshold", "keyword_responses"} |->
          CASE k = "block_keywords" -> kws
            [] k = "block_threshold" -> DigitStr(Threshold)
            [] k = "keyword_responses" -> PatternRules] :
      kws \in {<<T_open, T_bad>>, <<T_open>>, <<T_bad, T_open, <<"a", "d">>>>} }
PatternSenders ==
    {"u1"} \X {Message(t, "none", "none", FALSE) : t \in {T_three, T_bad, T_hi, T_hibad, T_open}}

InitPatterns ==
    /\ users = [u \in UserIds |->
                  IF u = "u1" THEN [DefaultRow EXCEPT !.user_state = "verified"] ELSE NoRow]
    /\ messages = [k \in UserIds \X MsgIds |-> NoEntry]
    /\ config \in PatternConfigs
    /\ nextTopic = 1
    /\ handlers = [h \in Handlers |-> IdleHandler]
    /\ cards = {}
    /\ hits = [u \in UserIds |-> 0]
    /\ binder = [u \in UserIds |-> "none"]
    /\ clock = 1
    /\ picked = [u \in UserIds |-> <<>>]

NextPatterns ==
    \E h \in {"h1"} :
        \/ StartPrivateMessage(h, PatternSenders)
        \/ KwUpdateCount(h)
        \/ KwBlock(h)
        \/ CreateForumTopic(h)
        \/ BindTopic(h)
        \/ ClearBinding(h)
        \/ LedgerPut(h)
        \/ Retire(h)

SpecPatterns == InitPatterns /\ [][NextPatterns]_vars

\* Stored thresholds: handleAdminConfigInput stores the trimmed input of the
\* block_threshold prompt as it is, so the value is any text an admin typed.
\* A verified user sends plain and matching messages, one at a time.
StoredThresholds == {<<>>, <<"x">>, <<"0">>, <<"-", "1">>, <<"1">>, <<"2">>}
ThresholdSenders == {"u1"} \X {Message(t, "none", "none", FALSE) : t \in {T_three, T_bad}}

InitThreshold ==
    /\ users = [u \in UserIds |->
                  IF u = "u1" THEN [DefaultRow EXCEPT !.user_state = "verified"] ELSE NoRow]
    /\ messages = [k \in UserIds \X MsgIds |-> NoEntry]
    /\ \E t \in StoredThresholds :
          config = [BaseConfig(<<<<"b", "a", "d">>>>) EXCEPT !["block_threshold"] = t]
    /\ nextTopic = 1
    /\ handlers = [h \in Handlers |-> IdleHandler]
    /\ cards = {}
    /\ hits = [u \in UserIds |-> 0]
    /\ binder = [u \in UserIds |-> "none"]
    /\ clock = 1
    /\ picked = [u \in UserIds |-> <<>>]

SpecThreshold == InitThreshold /\ [][NextPatterns]_vars

\* A message and its edit close together: a verified user, with or without a
\* thread, blocked or not, sends the text message M and edits it while M may still be under
\* way; the two invocations interleave at every access to the tables and to
\* the forum, and nothing else arrives.
Sent(kind) == \E h \in Handlers : handlers[h].kind = kind
RaceSenders == IF Sent("msg") THEN {} ELSE {"u1"} \X {M_three}
RaceEditors == IF Sent("msg") /\ ~Sent("edit") THEN {"u1"} ELSE {}

InitRace ==
    /\ \E t \in {NoTopic, 1}, b \in BOOLEAN :
        /\ users = [u \in UserIds |->
                      IF u = "u1" THEN [DefaultRow EXCEPT !.user_state = "verified", !.topic_id = t,
                                                          !.is_blocked = b]
                      ELSE NoRow]
        /\ nextTopic = t + 1
        /\ cards = IF t = NoTopic THEN {} ELSE {"u1"}
    /\ messages = [k \in UserIds \X MsgIds |-> NoEntry]
    /\ config \in InitConfigs
    /\ handlers = [h \in Handlers |-> IdleHandler]
    /\ hits = [u \in UserIds |-> 0]
    /\ binder = [u \in UserIds |-> "none"]
    /\ clock = 1
    /\ picked = [u \in UserIds |-> <<>>]

NextRace ==
    \E h \in Handlers :
        \/ StartPrivateMessage(h, RaceSenders)
        \/ StartEdit(h, RaceEditors, {T_hi, T_bad})
        \/ EditGet(h)
        \/ EditPut(h)
        \/ CreateForumTopic(h)
        \/ BindTopic(h)
        \/ ClearBinding(h)
        \/ LedgerPut(h)
        \/ Rest(h)

SpecRace == InitRace /\ [][NextRace]_vars

\* Two messages of one user close together: a verified user without a thread
\* sends two messages, each plain or matching a block pattern; the two
\* invocations interleave at every access to the tables and to the forum.
TwinIds == {1, 2}
TwinSenders == {"u1"} \X {M_three, Message(T_bad, "none", "none", FALSE)}

InitTwin ==
    /\ users = [u \in UserIds |->
                  IF u = "u1" THEN [DefaultRow EXCEPT !.user_state = "verified"] ELSE NoRow]
    /\ messages = [k \in UserIds \X TwinIds |-> NoEntry]
    /\ config \in InitConfigs
    /\ nextTopic = 1
    /\ handlers = [h \in Handlers |-> IdleHandler]
    /\ cards = {}
    /\ hits = [u \in UserIds |-> 0]
    /\ binder = [u \in UserIds |-> "none"]
    /\ clock = 1
    /\ picked = [u \in UserIds |-> <<>>]

NextTwin ==
    \E h \in Handlers :
        \/ StartMessage(h, TwinSenders, TwinIds)
        \/ KwUpdateCount(h)
        \/ KwBlock(h)
        \/ CreateForumTopic(h)
        \/ BindTopic(h)
        \/ ClearBinding(h)
        \/ LedgerPut(h)
        \/ Rest(h)

SpecTwin == InitTwin /\ [][NextTwin]_vars

\* ------------------------------------------------------------------ claims
\* what the log of an invocation says
CallIdx(r, c) == {k \in 1..Len(r.out) : r.out[k].c = c}
CopyCount(r) == Cardinality(CallIdx(r, "copy"))
FirstCopy(r) == CHOOSE k \in CallIdx(r, "copy") : \A j \in CallIdx(r, "copy") : k <= j
LastCopy(r) == CHOOSE k \in CallIdx(r, "copy") : \A j \in CallIdx(r, "copy") : k >= j
FirstCopyFailed(r) == r.kind = "msg" /\ CopyCount(r) > 0 /\ ~r.out[FirstCopy(r)].ok
\* createForumTopic calls made to replace the thread whose copy failed
ReplacementCreates(r) == {k \in CallIdx(r, "create") : k > FirstCopy(r)}
ReplacementPosted(r) ==
    /\ \E k \in ReplacementCreates(r) : r.out[k].ok
    /\ \E k \in CallIdx(r, "card") : k > FirstCopy(r) /\ r.out[k].ok
RetrySucceeded(r) == FirstCopyFailed(r) /\ CopyCount(r) = 2 /\ r.out[LastCopy(r)].ok
RetryFailed(r) == FirstCopyFailed(r) /\ CopyCount(r) = 2 /\ ~r.out[LastCopy(r)].ok
Delivered(r) == \E k \in 1..Len(r.out) : r.out[k].ok
StateRank(row) ==
    IF ~row.exists THEN 0
    ELSE CASE row.user_state = "verified" -> 2
           [] row.user_state = "pending_verification" -> 1
           [] OTHER -> 0
ExpectedAnswer == GetConfig("verif_a", T_three)
\* the invocation read the user's row and found it as the predicate names
ReadAs(r, state) ==
    r.kind = "msg" /\ r.snap.exists /\ ~r.snap.is_blocked /\ r.snap.user_state = state
MatchesBlockPattern(text) ==
    Len(GetBlockKeywords) > 0 /\ text # <<>> /\ FirstMatch(GetBlockKeywords, text, 1) # 0
\* slot h took the step and is (or has just finished) handling a private message
StepOf(h) == handlers'[h] # handlers[h] /\ handlers'[h].kind = "msg"

C2_StateNeverMovesBack ==
    [][\A u \in UserIds : ~IsAdminUser(u) => StateRank(users'[u]) >= StateRank(users[u])]_vars

\* C3: once a user is verified, handling a message whose text differs from the
\* expected answer leaves the user verified.
C3_VerifiedStaysVerified ==
    [][\A h \in Handlers :
          (/\ StepOf(h)
           /\ handlers'[h].msg.text # ExpectedAnswer
           /\ StateRank(users[handlers'[h].user]) = 2)
          => StateRank(users'[handlers'[h].user]) = 2]_vars

\* C4: a private message of a blocked user, whatever its content, produces no
\* reply, no forward and no change of the session.
C4_BlockedIsSilent ==
    [][\A h \in Handlers :
          (/\ StepOf(h)
           /\ handlers'[h].wasBlocked
           /\ users[handlers'[h].user].is_blocked)
          => (/\ ~Delivered(handlers'[h])
              /\ users'[handlers'[h].user] = users[handlers'[h].user])]_vars

\* C5: a message of a verified user whose text matches a block pattern is
\* never copied into a thread, whatever the outcome of the replies.
C5_BlockHitNeverCopied ==
    \A h \in Handlers :
        (ReadAs(handlers[h], "verified") /\ MatchesBlockPattern(handlers[h].msg.text))
        => CopyCount(handlers[h]) = 0

C7_TwoFailuresLeaveNoBinding ==
    \A h \in Handlers :
        LET r == handlers[h]
        IN  (r.pc = "done" /\ RetryFailed(r)) =>
                /\ CallIdx(r, "notice:forward") # {}
                /\ users[r.user].topic_id = NoTopic

\* C8: with threshold N and messages handled one after another, after the
\* k-th message matching a block pattern (k < N) the user is not blocked and
\* block_count is k; the N-th such message blocks the user.
C8_CountsToThreshold ==
    (\A h \in Handlers : handlers[h].pc = "idle") =>
        \A u \in UserIds :
            users[u].exists =>
                /\ hits[u] < BlockThreshold =>
                      ~users[u].is_blocked /\ users[u].block_count = hits[u]
                /\ hits[u] >= BlockThreshold => users[u].is_blocked

\* C9: a message of a user in pending_verification is accepted iff its
\* trimmed text equals the expected answer; acceptance makes the user
\* verified, any other text is answered with the error reply and leaves the
\* user in pending_verification.
C9_TrimmedAnswerDecides ==
    \A h \in Handlers :
        LET r == handlers[h]
        IN  (r.pc = "done" /\ ReadAs(r, "pending_verification") /\ CallIdx(r, "throw") = {}) =>
                IF Trim(r.msg.text) = ExpectedAnswer
                THEN users[r.user].user_state = "verified"
                ELSE /\ users[r.user].user_state = "pending_verification"
                     /\ CallIdx(r, "send:verify_fail") # {}

\* C10: the first /start of a user without a session creates the session and
\* leaves it in pending_verification.
C10_FirstStartMakesPending ==
    \A h \in Handlers :
        LET r == handlers[h]
        IN  (/\ r.pc = "done" /\ r.kind = "msg" /\ r.msg.text = T_start
             /\ ~IsAdminUser(r.user) /\ r.fresh
               /\ CallIdx(r, "throw") = {})
            => (users[r.user].exists /\ users[r.user].user_state = "pending_verification")

\* the stages whose reply the invocation has tried to send
StagesReplied(r) ==
    {st \in {"keyword", "filter", "autoreply"} :
        CASE st = "keyword" -> CallIdx(r, "send:warn") \cup CallIdx(r, "send:autoblock") # {}
          [] st = "filter" -> CallIdx(r, "send:filtered") # {}
          [] st = "autoreply" -> CallIdx(r, "send:autoreply") # {}}
AutoReplyPatterns == [j \in 1..Len(GetAutoReplyRules) |-> GetAutoReplyRules[j].keywords]
MatchesAutoReply(text) ==
    Len(GetAutoReplyRules) > 0 /\ text # <<>> /\ FirstMatch(AutoReplyPatterns, text, 1) # 0

\* C11: for a message of a verified, unblocked user the stages fire in the
\* order keyword block, content-type filter, auto-reply and the first that
\* fires ends the evaluation: a message matching a block pattern gets neither
\* filter notice nor auto-reply, a message of a disabled type gets no
\* auto-reply, and no message gets the reply of more than one stage.
C11_FirstStageEnds ==
    \A h \in Handlers :
        LET r == handlers[h]
        IN  ReadAs(r, "verified") =>
                /\ MatchesBlockPattern(r.msg.text) => StagesReplied(r) \subseteq {"keyword"}
                /\ (~MatchesBlockPattern(r.msg.text) /\ FilterReason(r.msg) # "")
                      => StagesReplied(r) \subseteq {"filter"}
                /\ Cardinality(StagesReplied(r)) <= 1

\* C14: a text message that passes the keyword and the filter stage and
\* matches an auto-reply rule gets exactly one auto-reply, that of the first
\* matching rule, and is not forwarded, whatever the outcome of the reply call.
C14_OneAutoReplyNoForward ==
    \A h \in Handlers :
        LET r == handlers[h]
        IN  (/\ ReadAs(r, "verified")
             /\ ~MatchesBlockPattern(r.msg.text)
             /\ FilterReason(r.msg) = ""
             /\ MatchesAutoReply(r.msg.text))
            => /\ CopyCount(r) = 0 /\ CallIdx(r, "create") = {}
               /\ Cardinality(CallIdx(r, "send:autoreply")) <= 1
               /\ \A k \in CallIdx(r, "send:autoreply") :
                      r.out[k].t = FirstMatch(AutoReplyPatterns, r.msg.text, 1)
               /\ r.pc = "done" => Cardinality(CallIdx(r, "send:autoreply")) = 1

\* the invocation evaluated the content-type filter for its message
ReachedFilter(r) == ReadAs(r, "verified") /\ ~MatchesBlockPattern(r.msg.text)
Dropped(r) == CallIdx(r, "send:filtered") # {}
\* the switch of a primary category
CategorySwitch(c) ==
    CASE c = "forwarded" -> "enable_forward_forwarding"
      [] c = "audio_voice" -> "enable_audio_forwarding"
      [] c = "sticker_gif" -> "enable_sticker_forwarding"
      [] c = "media" -> "enable_image_forwarding"
      [] c = "text" -> "enable_text_forwarding"
\* forwarded > audio/voice > sticker/animation > media > plain text, the last
\* being the category of whatever is left
PrimaryCategory(m) ==
    CASE m.fwd # "none" -> "forwarded"
      [] m.fwd = "none" /\ m.media \in {"audio", "voice"} -> "audio_voice"
      [] m.fwd = "none" /\ m.media \in {"sticker", "animation"} -> "sticker_gif"
      [] m.fwd = "none" /\ m.media \in {"photo", "video", "document"} -> "media"
      [] OTHER -> "text"
\* a message without text, recognised media or forward origin (a location, a
\* contact, a video note) is in none of the five categories
Uncategorised(m) == m.fwd = "none" /\ m.media = "none" /\ m.text = <<>>
ChannelGated(m) ==
    /\ m.fwd = "channel"
    /\ FilterOn("enable_forward_forwarding")
    /\ ~FilterOn("enable_channel_forwarding")
LinkGated(m) == m.link /\ ~FilterOn("enable_link_forwarding")

\* C12 as stated: the filter drops the message, with one reply, iff its
\* primary category is disabled, or it is a channel forward gated by the
\* sub-switch, or it has a link and links are disabled.
C12_AsStated ==
    \A h \in Handlers :
        LET r == handlers[h]
        IN  ReachedFilter(r) =>
                /\ Dropped(r) <=> \/ ~FilterOn(CategorySwitch(PrimaryCategory(r.msg)))
                                  \/ ChannelGated(r.msg)
                                  \/ LinkGated(r.msg)
                /\ Cardinality(CallIdx(r, "send:filtered")) <= 1

\* C12 amended: for every message shape and switch setting the filter drops
\* the message, with one reply, iff the message is in one of the five
\* categories and its primary category is disabled, or it is a channel
\* forward gated by the sub-switch, or it has a link and links are disabled;
\* a message in none of the categories passes whatever the category switches.
C12_DropIffCategoryDisabled ==
    \A h \in Handlers :
        LET r == handlers[h]
        IN  ReachedFilter(r) =>
                /\ Dropped(r) <=>
                      \/ /\ ~Uncategorised(r.msg)
                         /\ ~FilterOn(CategorySwitch(PrimaryCategory(r.msg)))
                      \/ ChannelGated(r.msg)
                      \/ LinkGated(r.msg)
                /\ Cardinality(CallIdx(r, "send:filtered")) <= 1
                /\ ~Dropped(r) =>
                      \/ r.pc = "ct_create"
                      \/ r.out # <<>> /\ r.out[1].c \in {"send:autoreply", "copy", "create"}

\* a forwarded photo passes while the media switch is off and the forward
\* switch is on: only the primary category counts
C12_Witness ==
    \E h \in Handlers :
        LET r == handlers[h]
        IN  /\ ReachedFilter(r) /\ ~Dropped(r)
            /\ r.msg.fwd = "user" /\ r.msg.media = "photo"
            /\ ~FilterOn("enable_image_forwarding") /\ FilterOn("enable_forward_forwarding")
            /\ CallIdx(r, "copy") # {}

\* the reason the primary category of a dropped message is reported with
CategoryReason(m) ==
    IF PrimaryCategory(m) = "forwarded"
    THEN IF FilterOn("enable_forward_forwarding") THEN "channel_forward" ELSE "forward"
    ELSE PrimaryCategory(m)
CategoryDrops(m) ==
    \/ ~Uncategorised(m) /\ ~FilterOn(CategorySwitch(PrimaryCategory(m)))
    \/ ChannelGated(m)

C15_LedgerIffTextForwarded ==
    [][\A h \in Handlers :
          LET r == handlers'[h]
              wrote == handlers[h].pc = "rl_ledger"
          IN  /\ (StepOf(h) /\ r.pc = "done") =>
                    /\ wrote <=> (r.msg.text # <<>> /\ \E k \in CallIdx(r, "copy") : r.out[k].ok)
                    /\ wrote => messages'[<<r.user, r.msgId>>] =
                                    [exists |-> TRUE, text |-> r.msg.text, date |-> r.date]
              /\ (StepOf(h) /\ ~wrote) => messages' = messages]_vars

\* the entry of a text message was written after the retry into a
\* replacement thread succeeded
C15_Witness ==
    \E h \in Handlers :
        LET r == handlers[h]
        IN  /\ r.pc = "done" /\ RetrySucceeded(r) /\ r.msg.text = T_three
            /\ messages[<<r.user, r.msgId>>] = [exists |-> TRUE, text |-> T_three, date |-> r.date]

\* C16: for a user with a bound thread and the ledger entry {text A, sentAt T}
\* of message M, an edit of M to B sends a notification into the thread that
\* carries A, T and B, and leaves the entry {text B, sentAt T}; the entry an
\* edit reads is the one the ledger holds, so a following edit to C reports B
\* as the original, at time T.
C16_EditRoundTrip ==
    /\ [](\A h \in Handlers :
            LET r == handlers[h]
            IN  (r.kind = "edit" /\ r.pc = "done" /\ r.stored.exists) =>
                    /\ Cardinality(CallIdx(r, "notice:edit")) = 1
                    /\ \A k \in CallIdx(r, "notice:edit") : r.out[k].t = r.snap.topic_id
                    /\ r.note = [orig |-> r.stored.text, time |-> DateOf(r.stored.date),
                                 new |-> r.msg.text]
                    /\ messages[<<r.user, r.msgId>>] =
                          [exists |-> TRUE, text |-> r.msg.text, date |-> r.stored.date])
    /\ [][\A h \in Handlers :
            (handlers[h].pc = "ed_get" /\ handlers'[h] # handlers[h])
            => handlers'[h].stored = messages[<<handlers[h].user, handlers[h].msgId>>]]_vars

\* a second edit has reported the text of the first edit as the original, at
\* the send time of the message
C16_Witness ==
    \E h \in Handlers :
        LET r == handlers[h]
        IN  /\ r.kind = "edit" /\ r.pc = "done"
            /\ r.note = [orig |-> T_hi, time |-> DateOf(100), new |-> T_bad]
            /\ messages[<<r.user, r.msgId>>] = [exists |-> TRUE, text |-> T_bad, date |-> 100]

\* the fallback calls of an admin reply
FallbackCalls(r) == {k \in 1..Len(r.out) : r.out[k].c \in
    {"fallback:photo", "fallback:document", "fallback:video", "fallback:audio",
     "fallback:voice", "fallback:sticker", "fallback:animation", "fallback:notice"}}
PrimaryCalls(r) == CallIdx(r, "reply:text") \cup CallIdx(r, "reply:copy")

BlockUnblockEffect(h) ==
    LET r == handlers'[h]
        row == users[r.user]
    IN  /\ users' = [users EXCEPT ![r.user] =
                        IF r.kind = "block" THEN [row EXCEPT !.is_blocked = TRUE]
                        ELSE [row EXCEPT !.is_blocked = FALSE, !.block_count = 0]]
        /\ messages' = messages
        /\ r.pc = "done"
        /\ Cardinality(CallIdx(r, "edit:markup")) = 1
        /\ CallIdx(r, "card") = {}

\* C18 as stated: every executed block or unblock sends one confirmation
C18_AsStated ==
    [][\A h \in Handlers :
          (handlers[h].pc = "cb_update" /\ handlers'[h] # handlers[h]) =>
              /\ BlockUnblockEffect(h)
              /\ Cardinality(CallIdx(handlers'[h], "send:confirm")) = 1]_vars

\* C18: a manual unblock leaves the session with is_blocked = 0 and
\* block_count = 0, a manual block with is_blocked = 1; both leave every other
\* field of the session (verification state, thread binding), every other
\* session and the ledger unchanged and edit the buttons of the existing card
\* once without sending a new card; one confirmation is sent into the thread
\* when that edit succeeded, and none when it failed.
C18_ManualBlockUnblock ==
    [][\A h \in Handlers :
          (handlers[h].pc = "cb_update" /\ handlers'[h] # handlers[h]) =>
              LET r == handlers'[h]
              IN  /\ BlockUnblockEffect(h)
                  /\ Cardinality(CallIdx(r, "send:confirm")) <= 1
                  /\ (\A k \in CallIdx(r, "edit:markup") : r.out[k].ok)
                        <=> CallIdx(r, "send:confirm") # {}]_vars

\* a user the keyword check had blocked was unblocked by the button: the
\* count is back at 0, the card was edited and the confirmation sent
C18_Witness ==
    \E h \in Handlers :
        LET r == handlers[h]
        IN  /\ r.kind = "unblock" /\ r.pc = "done" /\ r.wasBlocked
            /\ ~users[r.user].is_blocked /\ users[r.user].block_count = 0
            /\ users[r.user].user_state = "verified" /\ users[r.user].topic_id # NoTopic
            /\ r.out = <<Call("answer", TRUE, NoTopic), Call("edit:markup", TRUE, NoTopic),
                         Call("send:confirm", TRUE, NoTopic)>>

\* the families of button presses
CallbackKinds == {"config", "block", "unblock", "pin_card"}

\* C19: a button press of any family (config, block, unblock, pin_card) whose
\* sender is not in the admin list changes no stored state: no step of its
\* handling modifies a config row (scalar, rule list, admin edit session) or
\* a session row (is_blocked, block_count).
C19_NonAdminPressChangesNothing ==
    [][\A h \in Handlers :
          (/\ handlers[h].kind \in CallbackKinds
           /\ ~IsAdminUser(handlers[h].from)
           /\ handlers'[h] # handlers[h])
              => (users' = users /\ config' = config)]_vars

\* C20: whatever transport or store call fails while an inbound event is
\* handled, no exception escapes the dispatcher: no invocation ends with an
\* exception that nothing caught.
C20_NoExceptionEscapes ==
    \A h \in Handlers : CallIdx(handlers[h], "throw") = {}

\* createTopicForUser threw in the first creation of handler record r: the
\* createForumTopic call or the posting of the profile card failed
FirstCreationFailed(r) ==
    /\ r.kind = "msg" /\ r.snap.topic_id = NoTopic
    /\ \E k \in CallIdx(r, "create") \cup CallIdx(r, "card") :
          /\ ~r.out[k].ok
          /\ \A j \in 1..(k - 1) : r.out[j].c \in {"create", "card"}

\* C26: when thread creation fails for a user with no bound thread, the
\* creation-failure notice is sent to the user once and, within that event,
\* createForumTopic is called once only and copyMessage not at all.
C26_CreateFailureNoRetry ==
    \A h \in Handlers :
        LET r == handlers[h]
        IN  (r.pc = "done" /\ FirstCreationFailed(r)) =>
                /\ Cardinality(CallIdx(r, "notice:create")) = 1
                /\ Cardinality(CallIdx(r, "create")) = 1
                /\ CallIdx(r, "copy") = {}

\* the createForumTopic call of a new user's first message failed and the
\* user got the notice
C26_Witness ==
    \E h \in Handlers :
        handlers[h].pc = "done" /\ FirstCreationFailed(handlers[h])
            /\ handlers[h].out = <<Call("create", FALSE, NoTopic), Call("notice:create", TRUE, NoTopic)>>

\* C27: when the primary relay of an admin reply fails and the message has no
\* type-specific fallback (plain text, or content that is none of photo,
\* document, video, audio, voice, sticker, animation), the generic
\* unsupported-content notice is sent to the user exactly once and nothing
\* else is.
C27_GenericNoticeOnce ==
    \A h \in Handlers :
        LET r == handlers[h]
        IN  (/\ r.kind = "reply" /\ r.pc = "done"
             /\ MediaFields(r.msg.media) = {}
             /\ \E k \in PrimaryCalls(r) : ~r.out[k].ok) =>
                /\ Cardinality(CallIdx(r, "fallback:notice")) = 1
                /\ FallbackCalls(r) = CallIdx(r, "fallback:notice")
                /\ Len(r.out) = 2

\* an admin's text reply could not be sent and the user got the notice
C27_Witness ==
    \E h \in Handlers :
        LET r == handlers[h]
        IN  /\ r.kind = "reply" /\ r.pc = "done" /\ r.msg.text = T_hi
            /\ r.out = <<Call("reply:text", FALSE, NoTopic), Call("fallback:notice", TRUE, NoTopic)>>

\* the same for a reply that has neither text nor one of the media fields
C27_WitnessOther ==
    \E h \in Handlers :
        LET r == handlers[h]
        IN  /\ r.kind = "reply" /\ r.pc = "done" /\ r.msg.text = T_empty /\ r.msg.media = "none"
            /\ r.out = <<Call("reply:copy", FALSE, NoTopic), Call("fallback:notice", TRUE, NoTopic)>>

\* C28: an edit of a message of a user with a bound thread that has no
\* ledger entry sends exactly one notification into that thread, which
\* reports the original content and its time as unavailable together with
\* the new content, and creates no ledger entry.
C28_EditWithoutEntry ==
    \A h \in Handlers :
        LET r == handlers[h]
        IN  (/\ r.kind = "edit" /\ r.pc = "done"
             /\ r.snap.exists /\ r.snap.topic_id # NoTopic
             /\ ~r.stored.exists) =>
                /\ Len(r.out) = 1
                /\ r.out[1].c = "notice:edit" /\ r.out[1].t = r.snap.topic_id
                /\ r.note = [orig |-> OriginalUnavailable, time |-> TimeUnavailable,
                             new |-> r.msg.text]
                /\ ~messages[<<r.user, r.msgId>>].exists

\* u1, bound to thread 1, edited a message the ledger does not know
C28_Witness ==
    \E h \in Handlers :
        LET r == handlers[h]
        IN  /\ r.kind = "edit" /\ r.pc = "done" /\ r.user = "u1" /\ r.msg.text = T_bad
            /\ users["u1"].topic_id = 1 /\ ~r.stored.exists
            /\ r.out = <<Call("notice:edit", TRUE, 1)>>
            /\ r.note.orig = OriginalUnavailable /\ r.note.new = T_bad
            /\ ~messages[<<"u1", r.msgId>>].exists

\* C25: profile-change propagation (rename of the bound thread, notification,
\* new profile card with the current block state) makes no createForumTopic
\* call and leaves the thread binding of the session as it is, also when the
\* rename or one of the sends fails part-way.
C25_PropagationKeepsBinding ==
    [][\A h \in Handlers :
          (handlers'[h].kind = "profile" /\ handlers'[h] # handlers[h]) =>
              LET r == handlers'[h]
              IN  /\ users'[r.user].topic_id = users[r.user].topic_id
                  /\ users'[r.user].topic_id = r.topicId
                  /\ nextTopic' = nextTopic
                  /\ \A k \in 1..Len(r.out) :
                        /\ r.out[k].c \in {"rename", "send:profile_note", "card"}
                        /\ r.out[k].t = r.topicId]_vars

\* the rename of u1's thread went through and the notification failed
C25_Witness ==
    \E h \in Handlers :
        LET r == handlers[h]
        IN  /\ r.kind = "profile" /\ r.pc = "done" /\ r.user = "u1"
            /\ r.out = <<Call("rename", TRUE, r.topicId), Call("send:profile_note", FALSE, r.topicId)>>
            /\ users["u1"].topic_id = r.topicId /\ r.topicId # NoTopic

\* all three calls went through
C25_WitnessAll ==
    \E h \in Handlers :
        LET r == handlers[h]
        IN  /\ r.kind = "profile" /\ r.pc = "done"
            /\ Len(r.out) = 3 /\ \A k \in 1..3 : r.out[k].ok
            /\ users[r.user].topic_id = r.topicId

\* ------------------------------------------------ admin edit sessions
HasSession(u) == AdminStateKey(u) \in DOMAIN config
\* the message was handled as input of an edit session
WasInput(r) == r.kind = "msg" /\ r.state # NoState
Answered(r) == \E k \in 1..Len(r.out) : r.out[k].c = "answer" /\ r.out[k].ok
\* the admin pressed the cancel button under the prompt of the outstanding action
PressedCancel(r) ==
    /\ r.kind = "config" /\ IsAdminUser(r.from)
    /\ r.picked # <<>> /\ r.target = CancelButtonOf(r.picked[Len(r.picked)])
\* config without the edit sessions
Settings(tbl) ==
    [k \in {j \in DOMAIN tbl : \A u \in UserIds : j # AdminStateKey(u)} |-> tbl[k]]

\* C21: once an edit or add action is completed or cancelled, by the cancel
\* keyword or by the cancel button under the prompt, the admin has no edit
\* session, so the next text is not taken as input
C21_NoSessionAfterCompletion ==
    \A h \in Handlers :
        LET r == handlers[h]
        IN  (r.pc = "done" /\ (WasInput(r) \/ (PressedCancel(r) /\ Answered(r))))
                => ~HasSession(r.user)

\* C29: the input step of an admin who selected two actions in a row writes
\* the target of the second action only and ends the session
C29_Step ==
    \A h \in Handlers :
        LET r == handlers[h]
        IN  (WasInput(r) /\ Len(r.picked) = 2) =>
                /\ r.state.key = r.picked[2]
                /\ \A k \in DOMAIN Settings(config) \cup DOMAIN Settings(config') :
                        k # TargetOf(r.picked[2]) =>
                            /\ k \in DOMAIN config /\ k \in DOMAIN config'
                            /\ config'[k] = config[k]
                /\ handlers'[h].pc = "done" => ~HasSession(r.user)'
C29_SecondActionOnly == [][C29_Step]_vars
\* an input was applied to the second of two different actions
C29_Witness ==
    \E h \in Handlers :
        LET r == handlers[h]
        IN  /\ r.pc = "done" /\ WasInput(r) /\ Len(r.picked) = 2
            /\ r.picked[1] # r.picked[2] /\ r.picked[2] = "verif_a"
            /\ r.report = "send:updated" /\ r.msg.text = T_x
            /\ config["verif_a"] = T_x /\ ~HasSession(r.user)

\* an auto-reply input is pattern===reply with both parts non-empty
WellFormedRule(text) ==
    \E i \in 1..(Len(text) - 2) :
        LET left == SubSeq(text, 1, i - 1)
            right == SubSeq(text, i + 3, Len(text))
        IN  /\ SubSeq(text, i, i + 2) = <<"=", "=", "=">>
            /\ IndexOf(left, <<"=", "=", "=">>) = 0 /\ IndexOf(right, <<"=", "=", "=">>) = 0
            /\ Trim(left) # <<>> /\ Trim(right) # <<>>
\* the input is the cancel keyword or a malformed list addition
Refused(r) ==
    /\ WasInput(r)
    /\ \/ ToLower(r.msg.text) = T_cancel
       \/ r.state.key = "keyword_responses_add" /\ ~WellFormedRule(r.msg.text)
       \/ r.state.key = "block_keywords_add" /\ Trim(r.msg.text) = <<>>
Reports(r) == {k \in 1..Len(r.out) : r.out[k].c \in {"send:rejected", "send:cancelled"}}

\* C30: a malformed list addition and the cancel keyword change no stored
\* setting or rule, are reported once and end the session
C30_Step ==
    \A h \in Handlers :
        LET r == handlers[h]
        IN  Refused(r) =>
                /\ Settings(config') = Settings(config)
                /\ handlers'[h].pc = "done" =>
                        /\ ~HasSession(r.user)'
                        /\ Cardinality(Reports(handlers'[h])) = 1
C30_RefusedInputChangesNothing == [][C30_Step]_vars
\* a malformed auto-reply input was reported and the session is over
C30_Witness ==
    \E h \in Handlers :
        LET r == handlers[h]
        IN  /\ r.pc = "done" /\ Refused(r) /\ r.state.key = "keyword_responses_add"
            /\ r.msg.text = T_x /\ r.out[Len(r.out)] = Call("menu:autoreply", TRUE, NoTopic)
            /\ Cardinality(Reports(r)) = 1 /\ ~HasSession(r.user)

\* ------------------------------------------------------- callback data
\* the rules whose identity is not the one written on the button
RECURSIVE OtherRules(_, _)
OtherRules(rules, ident) ==
    IF rules = <<>> THEN <<>>
    ELSE (IF IdStr(Head(rules).id) = ident THEN <<>> ELSE <<Head(rules)>>)
            \o OtherRules(Tail(rules), ident)
\* the keywords other than the one written on the button
RECURSIVE OtherKeywords(_, _)
OtherKeywords(kws, kw) ==
    IF kws = <<>> THEN <<>>
    ELSE (IF Head(kws) = kw THEN <<>> ELSE <<Head(kws)>>) \o OtherKeywords(Tail(kws), kw)

\* C22: the data of every configuration button decodes to the arguments it
\* was made of, and a press on the delete button of a list entry removes
\* that entry and no other
C22_Step ==
    \A h \in Handlers :
        LET r == handlers[h]
        IN  /\ r.kind = "config" => r.data = r.target
            /\ (r.kind = "config" /\ r.target.action = "delete" /\ r.pc # "done"
                    /\ handlers'[h].pc = "done") =>
                  IF r.target.key = "block_keywords"
                  THEN config'["block_keywords"] =
                            OtherKeywords(config["block_keywords"], r.target.value)
                  ELSE config'["keyword_responses"] =
                            StoredRules(OtherRules(config["keyword_responses"].rules,
                                                   r.target.value))
C22_CallbackDataRoundTrips == [][C22_Step]_vars

\* --------------------------------------------------- legacy auto-replies
\* the handler opened the auto-reply menu or the list and has read the rules
HasReadRules(r) ==
    r.pc = "done" /\ r.kind = "config" /\ r.target.action \in {"menu", "list"}
        /\ r.ret \in {"menu", "list"}
SameRule(rule, old) == rule.keywords = old.keywords /\ rule.response = old.response

\* C23: a read of legacy text with one valid line returns one rule with the
\* line's pattern and reply and stores the list; a read of a stored list
\* returns it as it is; a text that is neither gives the empty list
C23_LegacyConversion ==
    \A h \in Handlers :
        LET r == handlers[h]
            old == ParseOldKeywordResponses(r.jsonString.text)
        IN  HasReadRules(r) =>
                IF r.jsonString.json
                THEN r.rules = r.jsonString.rules /\ config["keyword_responses"] = r.jsonString
                ELSE /\ Len(old) = 1 =>
                            /\ Len(r.rules) = 1 /\ SameRule(r.rules[1], old[1])
                            /\ config["keyword_responses"] = StoredRules(r.rules)
                     /\ Len(old) = 0 => r.rules = <<>>

\* --------------------------------------------------- block-keyword list
\* no empty pattern and no pattern twice
CleanList(kws) ==
    /\ \A i \in 1..Len(kws) : kws[i] # <<>>
    /\ \A i, j \in 1..Len(kws) : kws[i] = kws[j] => i = j
Holds(kws, kw) == \E i \in 1..Len(kws) : kws[i] = kw

\* C24: the stored block-keyword list never holds an empty pattern or a
\* pattern twice, whatever additions and deletions of several admins
\* interleave; an addition of an empty or present pattern is refused and the
\* refused handler leaves the list as it is
C24_Step ==
    /\ CleanList(GetBlockKeywords)'
    /\ \A h \in Handlers :
        LET r == handlers[h]
            newKeyword == Trim(r.msg.text)
        IN  /\ (r.pc = "ai_kw_read" /\ handlers'[h] # r
                    /\ (newKeyword = <<>> \/ Holds(GetBlockKeywords, newKeyword))) =>
                  handlers'[h].report = "send:rejected" /\ handlers'[h].pc = "ai_clear"
            /\ (r.report = "send:rejected" /\ handlers'[h] # r) =>
                  GetBlockKeywords' = GetBlockKeywords
C24_KeywordListStaysClean == [][C24_Step]_vars
\* two admins are about to store the same new pattern, each having read the
\* list without it
C24_Witness ==
    /\ handlers["h1"].pc = "ai_kw_put" /\ handlers["h2"].pc = "ai_kw_put"
    /\ handlers["h1"].user # handlers["h2"].user
    /\ handlers["h1"].kws = handlers["h2"].kws
    /\ ~Holds(GetBlockKeywords, Trim(handlers["h1"].msg.text))
\* a present pattern was refused while another admin's deletion was under way
C24_WitnessRefused ==
    \E h, g \in Handlers :
        /\ handlers[h].pc = "ai_clear" /\ handlers[h].report = "send:rejected"
        /\ handlers[h].msg.text = T_x
        /\ handlers[g].pc = "del_put"

\* ------------------------------------------------- patterns that do not compile
\* the patterns of a list that compile and match the text
Firing(patterns, text) ==
    {j \in 1..Len(patterns) : RegexCompiles(patterns[j]) /\ RegexTest(patterns[j], text)}
RulePatterns == [j \in 1..Len(GetAutoReplyRules) |-> GetAutoReplyRules[j].keywords]
AllCallsOk(r) == \A k \in 1..Len(r.out) : r.out[k].ok
ReachedRelay(r) == CallIdx(r, "create") # {} \/ CallIdx(r, "copy") # {}

\* C31: a pattern that does not compile is passed over: the first pattern
\* that compiles and matches fires, in the block list and in the auto-reply
\* list, and a message that no such pattern matches goes on to the relay
C31_InvalidPatternSkipped ==
    \A h \in Handlers :
        LET r == handlers[h]
            kw == Firing(GetBlockKeywords, r.msg.text)
            ar == Firing(RulePatterns, r.msg.text)
        IN  (r.pc = "done" /\ r.kind = "msg" /\ ~r.wasBlocked /\ AllCallsOk(r)) =>
                IF kw # {}
                THEN /\ r.i \in kw /\ \A j \in kw : r.i <= j
                     /\ r.cnt = r.snap.block_count + 1
                     /\ CallIdx(r, "send:warn") # {} /\ ~ReachedRelay(r)
                ELSE IF ar # {}
                THEN /\ r.i \in ar /\ \A j \in ar : r.i <= j
                     /\ CallIdx(r, "send:autoreply") # {} /\ ~ReachedRelay(r)
                ELSE ReachedRelay(r)
\* behind a first pattern that does not compile the second block keyword fired
C31_Witness ==
    \E h \in Handlers :
        LET r == handlers[h]
        IN  /\ r.pc = "done" /\ r.kind = "msg" /\ AllCallsOk(r)
            /\ ~RegexCompiles(GetBlockKeywords[1]) /\ r.i = 2
            /\ r.msg.text = T_bad /\ CallIdx(r, "send:warn") # {}
\* behind a rule that does not compile the second auto-reply rule fired
C31_WitnessRule ==
    \E h \in Handlers :
        LET r == handlers[h]
        IN  /\ r.pc = "done" /\ r.kind = "msg" /\ AllCallsOk(r)
            /\ ~RegexCompiles(RulePatterns[1]) /\ r.i = 2
            /\ r.msg.text = T_hi /\ CallIdx(r, "send:autoreply") # {}
\* a message that is "(" itself matched nothing and was copied into the thread
C31_WitnessNone ==
    \E h \in Handlers :
        LET r == handlers[h]
        IN  /\ r.pc = "done" /\ r.kind = "msg" /\ AllCallsOk(r)
            /\ r.msg.text = T_open /\ CallIdx(r, "copy") # {}

\* ---------------------------------------------------- order of an edit
\* C32: the ledger entry of an edited message is overwritten only after the
\* notification with the previous and the new text has been sent into the
\* thread
C32_NotifyBeforeOverwrite ==
    [][\A h \in Handlers :
          LET r == handlers[h]
              key == <<r.user, r.msgId>>
          IN  (r.kind = "edit" /\ handlers'[h] # r /\ messages'[key] # messages[key]) =>
                  \E k \in CallIdx(r, "notice:edit") : r.out[k].ok]_vars

\* ------------------------------------------------ a message and its edit
Returned(h) == handlers[h].pc = "returned"
\* the invocation forwarded its message into a thread
Forwarded(r) == r.kind = "msg" /\ \E k \in CallIdx(r, "copy") : r.out[k].ok

\* C33: when the forward handler and the edit handler of a text message have
\* both finished, in whatever order their store operations interleaved, the
\* ledger entry of the message holds the edited text and the send time of
\* the message
C33_LedgerHoldsEditedText ==
    \A f, e \in Handlers :
        (/\ Returned(f) /\ Returned(e)
         /\ Forwarded(handlers[f]) /\ handlers[e].kind = "edit"
         /\ handlers[e].user = handlers[f].user /\ handlers[e].msgId = handlers[f].msgId) =>
            messages[<<handlers[f].user, handlers[f].msgId>>] =
                [exists |-> TRUE, text |-> handlers[e].msg.text, date |-> handlers[f].date]

\* ------------------------------------------------ two messages of one user
\* the invocation started with no thread and created one
CreatedThread(r) == r.kind = "msg" /\ r.snap.topic_id = NoTopic /\ r.newTopic # NoTopic

\* C34: two forwarding handlers of a user without a thread have each created
\* a thread before either binding was stored, and both have finished: the
\* session is bound to the thread whose binding was stored first, not to the
\* one stored last.  (g stored last and created first, so both threads
\* existed before f stored its binding.)
C34_FirstWriterWins ==
    \A f, g \in Handlers :
        (/\ f # g /\ Returned(f) /\ Returned(g)
         /\ handlers[f].user = handlers[g].user
         /\ CreatedThread(handlers[f]) /\ CreatedThread(handlers[g])
         /\ AllCallsOk(handlers[f]) /\ AllCallsOk(handlers[g])
         /\ binder[handlers[g].user] = g
         /\ handlers[g].newTopic < handlers[f].newTopic) =>
            users[handlers[f].user].topic_id = handlers[f].newTopic

\* ------------------------------------------------ concurrent list changes
\* the handler has stored its addition to the block-keyword list
HasAdded(r) ==
    r.kind = "msg" /\ r.report = "send:added" /\ r.pc \notin {"ai_kw_read", "ai_kw_put"}

\* C35: a change of the block-keyword list replaces the whole list: a handler
\* stores the list it read with its own addition or deletion applied,
\* whatever the list holds at the time of the write, so that a change another
\* admin stored in between is lost
C35_Step ==
    \A h \in Handlers :
        LET r == handlers[h]
            n == handlers'[h]
        IN  n # r =>
              /\ (r.pc = "ai_kw_read" /\ n.pc = "ai_kw_put") =>
                    n.kws = Append(GetBlockKeywords, Trim(r.msg.text))
              /\ r.pc = "del_kw_read" =>
                    n.kws = OtherKeywords(GetBlockKeywords, r.data.value)
              /\ (r.pc = "ai_kw_put" \/ (r.pc = "del_put" /\ r.data.key = "block_keywords")) =>
                    GetBlockKeywords' = r.kws
C35_LastWriterWins == [][C35_Step]_vars
\* two admins added different patterns, both additions were stored and
\* reported as added, one handler has finished with every call successful,
\* and the stored list lacks its pattern
C35_Witness ==
    \E f, g \in Handlers :
        /\ f # g /\ HasAdded(handlers[f]) /\ HasAdded(handlers[g])
        /\ handlers[f].pc = "done" /\ AllCallsOk(handlers[f]) /\ AllCallsOk(handlers[g])
        /\ Trim(handlers[f].msg.text) # Trim(handlers[g].msg.text)
        /\ ~Holds(GetBlockKeywords, Trim(handlers[f].msg.text))
        /\ Holds(GetBlockKeywords, Trim(handlers[g].msg.text))
\* an addition was stored and a deletion of another pattern, read before it,
\* was stored after it: the list lacks the added pattern
C35_WitnessDelete ==
    \E f, g \in Handlers :
        /\ HasAdded(handlers[f]) /\ AllCallsOk(handlers[f])
        /\ handlers[g].kind = "config" /\ handlers[g].data.action = "delete"
        /\ handlers[g].pc = "done" /\ AllCallsOk(handlers[g])
        /\ handlers[g].data.value # Trim(handlers[f].msg.text)
        /\ ~Holds(GetBlockKeywords, Trim(handlers[f].msg.text))

\* ------------------------------------------------ blocked users
\* C36: a handler that found its user blocked, the user being blocked still,
\* delivers nothing of the user into the admin group: no copy of a message
\* and no notification of an edit reaches the thread
C36_BlockedDeliversNothing ==
    \A h \in Handlers :
        LET r == handlers[h]
        IN  (r.kind \in {"msg", "edit"} /\ r.snap.is_blocked /\ users[r.user].is_blocked) =>
                \A k \in CallIdx(r, "copy") \cup CallIdx(r, "notice:edit") : ~r.out[k].ok

\* ------------------------------------------------ concurrent keyword hits
\* C37: two messages of one verified user whose handlers interleave and
\* whose calls all succeed: when both have finished, every message that
\* matched a block pattern has raised block_count by one, or the user is
\* blocked once the hits reach the threshold; no message counts twice
C37_NoHitLost ==
    \A f, g \in Handlers :
        LET u == handlers[f].user
        IN  (/\ f # g /\ Returned(f) /\ Returned(g)
             /\ handlers[f].kind = "msg" /\ handlers[g].kind = "msg" /\ handlers[g].user = u
             /\ AllCallsOk(handlers[f]) /\ AllCallsOk(handlers[g])) =>
                /\ handlers[f].cnt <= handlers[f].snap.block_count + 1
                /\ IF hits[u] >= BlockThreshold THEN users[u].is_blocked
                   ELSE users[u].block_count = hits[u] /\ ~users[u].is_blocked

\* ------------------------------------------------ failed thread creation
\* C38: when the handling of a message ends with the creation-failure notice
\* sent to the user, the user's session has no thread binding
C38_FailedCreationLeavesNoBinding ==
    \A h \in Handlers :
        LET r == handlers[h]
        IN  (r.pc = "done" /\ r.kind = "msg"
                /\ \E k \in CallIdx(r, "notice:create") : r.out[k].ok) =>
                    users[r.user].topic_id = NoTopic

\* ------------------------------------------------ the effective threshold
\* the stored block_threshold parses to a positive integer
PositiveThreshold ==
    LET p == ParseInt(GetConfig("block_threshold", <<"5">>)) IN ~p.nan /\ p.n >= 1

\* C39: the threshold a handler uses in the keyword-block check is an
\* integer of at least 1: the stored value when that parses to a positive
\* integer, and 5 otherwise, so that no user is blocked without a hit
C39_ThresholdAtLeastOne ==
    /\ \A h \in Handlers :
          LET r == handlers[h]
          IN  r.pc \in {"kw_update", "kw_block"} =>
                  /\ r.thr >= 1
                  /\ ~PositiveThreshold => r.thr = 5
    /\ \A u \in UserIds : (users[u].exists /\ users[u].is_blocked) => hits[u] >= 1
====
